---- MODULE Spec2Model ----
(***************************************************************************)
(* Swap routing and concentrated-liquidity quoting of osmosis-frontend.    *)
(*                                                                         *)
(* The module holds several state machines over one set of variables:      *)
(*   SpecRouter, SpecRouterSession                                         *)
(*                 the OptimizedRoutes router (route discovery, split)     *)
(*   SpecSwap      the concentrated-liquidity swap simulator               *)
(*                 (calcOutGivenIn), one loop iteration per step           *)
(*   SpecPool      ConcentratedLiquidityPool.getTokenOutByTokenIn over its *)
(*                 tick data provider                                      *)
(*   SpecProvider  ConcentratedLiquidityPoolTickDataProvider with          *)
(*                 overlapping calls                                       *)
(*   SpecTick      tickToSqrtPrice and priceToTick on bounded inputs       *)
(* Each specification leaves the variables of the others at their initial  *)
(* values.                                                                 *)
(***************************************************************************)
EXTENDS Integers, Sequences, FiniteSets, TLC

VARIABLES
    \* ---- OptimizedRoutes (router) ----
    sortedPools,          \* this._sortedPools: sequence of pool records
    maxHops,              \* this._maxHops
    maxRoutes,            \* this._maxRoutes
    candidatePathsCache,  \* this._candidatePathsCache: key -> route list, or NoEntry
    routeOutCache,        \* this._calcRouteOutAmtGivenInAmtCache: set of [k, v]
    calls,                \* number of calls made on the router instance
    callLimit,            \* number of calls the session makes at most
    firstReturned,        \* key -> the number of getCandidateRoutes calls made for
                          \* the key and what the first of them returned
    last,                 \* the last router call and what it returned or threw
    quoteLog,             \* the route quotes of the split searches so far: simulated
                          \* once, simulated again, served from the cache
    \* ---- calcOutGivenIn (swap simulator) ----
    swapInput,            \* the arguments of the running calcOutGivenIn call
    swapState,            \* swapState: SwapState
    swapIndex,            \* i, the index of the next entry of tickDepths
    swapStatus,           \* "running", "returned" or the error thrown
    \* ---- ConcentratedLiquidityPool (pool model) ----
    poolQuote,            \* the getTokenOutByTokenIn call: arguments, position, result
    poolQuotes,           \* number of quotes asked of the pool
    queryDepths,          \* tokenInDenom -> the query store's response
    poolRaw,              \* this.raw: current_sqrt_price, current_tick
    \* ---- ConcentratedLiquidityPoolTickDataProvider ----
    zeroForOneBoundIndex, \* this._zeroForOneBoundIndex
    oneForZeroBoundIndex, \* this._oneForZeroBoundIndex
    triesPerDenomOutGivenIn,  \* this._triesPerDenomOutGivenIn
    triesPerDenomInGivenOut,  \* this._triesPerDenomInGivenOut
    depthsStore,          \* direction -> the query store of the direction
    pendingRequests,      \* the requests calls are suspended at, oldest first
    providerCalls,        \* number of calls made on the provider
    succeeded,            \* method -> denom -> number of calls that returned ticks
    providerPoolId,       \* id of this.pool, the pool the provider serves
    \* ---- tick.ts (tick index <-> price) ----
    tickInput,            \* the tick index, price and exponentAtPriceOne at hand
    tickCall,             \* the last conversion called and what it returned or threw
    \* ---- ObservableTradeTokenInConfig ----
    sendCurrencyMinDenom, \* this._sendCurrencyMinDenom
    outCurrencyMinDenom,  \* this._outCurrencyMinDenom
    spotPriceResult,      \* this._spotPriceResult: undefined, or the promise stored
    spotPriceRuns,        \* runs of the spot-price autorun that have not settled
    spotPriceRunCount,    \* number of runs of the spot-price autorun so far
    currencyChanges,      \* number of currency selections made so far
    \* ---- getFeeChargePerSwapStepOutGivenIn ----
    feeInput,             \* the arguments at hand
    feeCall,              \* whether the function was called and what it returned or threw
    \* ---- ObservableQueryLiquidityPositionsById (position-by-id.ts) ----
    fetchingPositionIds,  \* this._fetchingPositionIds
    positionHasData,      \* position id -> hasData of the query of the id in the map
    positionFetches,      \* position id -> fetches started for the id and not settled
    positionFetchCount,   \* position id -> fetches started for the id so far
    positionCalls         \* position id -> getForPositionId calls made for the id

routerVars == <<sortedPools, maxHops, maxRoutes, candidatePathsCache, routeOutCache,
                calls, callLimit, firstReturned, last, quoteLog>>

swapVars == <<swapInput, swapState, swapIndex, swapStatus>>

poolVars == <<poolQuote, poolQuotes, queryDepths, poolRaw>>

providerVars == <<zeroForOneBoundIndex, oneForZeroBoundIndex, triesPerDenomOutGivenIn,
                  triesPerDenomInGivenOut, depthsStore, pendingRequests, providerCalls,
                  succeeded, providerPoolId>>

tickVars == <<tickInput, tickCall>>

tradeVars == <<sendCurrencyMinDenom, outCurrencyMinDenom, spotPriceResult, spotPriceRuns,
               spotPriceRunCount, currencyChanges>>

feeVars == <<feeInput, feeCall>>

positionVars == <<fetchingPositionIds, positionHasData, positionFetches, positionFetchCount,
                  positionCalls>>

vars == <<routerVars, swapVars, poolVars, providerVars, tickVars, tradeVars, feeVars, positionVars>>

(***************************************************************************)
(* Bounds of the model                                                     *)
(***************************************************************************)
\* Pools a router is built from: any sub-list of the first MaxPools pools of
\* PoolUniverse.
MaxPools == 5
\* Calls made on one router instance in SpecRouter.
MaxCalls == 1
\* SpecRouterSession: longer sessions on routers of the first MaxSessionPools
\* pools.
MaxSessionPools == 3
MaxSessionCalls == 3

\* ------------------------------------------------------------------------
\* Generic helpers
\* ------------------------------------------------------------------------
Range(s) == {s[i] : i \in 1..Len(s)}

Reverse(s) == [i \in 1..Len(s) |-> s[Len(s) + 1 - i]]

RECURSIVE SumSeq(_)
SumSeq(s) == IF s = <<>> THEN 0 ELSE Head(s) + SumSeq(Tail(s))

\* const name = value; Body: the value is computed once and read by name.
With(value, Body(_)) == Body(value)

NoEntry == "undefined"

\* No calcOutGivenIn call is running.
NoSwap ==
    /\ swapInput = [tokenInDenom |-> "A", amount |-> 0, tokenDenom0 |-> "A",
                    isZeroForOne |-> TRUE, poolLiquidity |-> 0, tickDepths |-> <<>>,
                    curTickIndex |-> 0, curTick |-> 0, curSqrtPrice |-> 0,
                    precisionFactorAtPriceOne |-> 0 - 1, swapFee |-> 0, priceLimit |-> 0]
    /\ swapState = [amountRemaining |-> 0, amountCalculated |-> 0, sqrtPrice |-> 0,
                    tick |-> 0, liquidity |-> 0, feeGrowthGlobal |-> 0]
    /\ swapIndex = 0
    /\ swapStatus = "idle"

\* A field that holds an Int or undefined.
Undefined == [defined |-> FALSE, v |-> 0]

Defined(v) == [defined |-> TRUE, v |-> v]

\* Denominations a caller may name; the concentrated pool holds "A" and "B".
QuoteDenoms == {"A", "B", "C"}

\* the all-zero SwapResult returned when the simulation yields nothing
ZeroSwapResult ==
    [amount |-> 0, beforeSpotPriceInOverOut |-> 0, beforeSpotPriceOutOverIn |-> 0,
     afterSpotPriceInOverOut |-> 0, afterSpotPriceOutOverIn |-> 0,
     effectivePriceInOverOut |-> 0, effectivePriceOutOverIn |-> 0, priceImpact |-> 0]

\* No getTokenOutByTokenIn or getTokenInByTokenOut call has been made.
\* amount is the amount of the specified token; tickRequests counts the
\* getTickDepths requests of the call, simulations the simulator runs.
NoQuote ==
    [phase |-> "idle", method |-> "none", tokenInDenom |-> "A", amount |-> 0,
     tokenOutDenom |-> "A", swapFee |-> 0, tickRequests |-> 0, simulations |-> 0,
     err |-> "none", result |-> ZeroSwapResult]

\* The query store of a token-in denomination before its first response.
NoResponse == [fetched |-> FALSE, depths |-> <<>>]

\* raw of a pool at sqrt price 1 (tick 0) and of one at sqrt price 2 (tick 30
\* at exponentAtPriceOne -1)
PoolRaws == {[current_sqrt_price |-> 1, current_tick |-> 0],
             [current_sqrt_price |-> 2, current_tick |-> 30]}

\* The pool after its constructor: no quote asked, no tick response stored.
PoolConstructedFor(raw) ==
    /\ poolRaw = raw
    /\ poolQuote = NoQuote
    /\ poolQuotes = 0
    /\ queryDepths = [d \in QuoteDenoms |-> NoResponse]

\* The pool at sqrt price 1.
PoolConstructed == PoolConstructedFor([current_sqrt_price |-> 1, current_tick |-> 0])

\* nextTicksRampMultiplier = new Int(2)
nextTicksRampMultiplier == 2

\* maxNumRequeriesPerDenom = 6
maxNumRequeriesPerDenom == 6

\* The two provider methods.
ProviderMethods == {"OutGivenIn", "InGivenOut"}

\* The query store of a direction before getForPoolTokenIn has created it.
NoStore == [created |-> FALSE, boundTick |-> 0, fetchedUpTo |-> Undefined]

\* The provider after its constructor (pools.ts 85-95) for the pool of the
\* id: no bound index, empty counter maps (a missing key reads as 0), nothing
\* requested.
ProviderConstructedFor(poolId) ==
    /\ providerPoolId = poolId
    /\ zeroForOneBoundIndex = Undefined
    /\ oneForZeroBoundIndex = Undefined
    /\ triesPerDenomOutGivenIn = [d \in QuoteDenoms |-> 0]
    /\ triesPerDenomInGivenOut = [d \in QuoteDenoms |-> 0]
    /\ depthsStore = [zeroForOne \in BOOLEAN |-> NoStore]
    /\ pendingRequests = <<>>
    /\ providerCalls = 0
    /\ succeeded = [m \in ProviderMethods |-> [d \in QuoteDenoms |-> 0]]

\* The provider of the pool whose current tick is 0.
ProviderConstructed == ProviderConstructedFor(1)

\* No tick conversion has been called.
NoTickCall ==
    /\ tickInput = [tickIndex |-> 0, price |-> 0, exponentAtPriceOne |-> 0 - 1]
    /\ tickCall = [op |-> "none", err |-> "none", v |-> 0]

\* No trade configuration has been constructed.
NoTradeConfig ==
    /\ sendCurrencyMinDenom = "A"
    /\ outCurrencyMinDenom = "B"
    /\ spotPriceResult = [state |-> "undefined", send |-> "", out |-> "", run |-> 0]
    /\ spotPriceRuns = {}
    /\ spotPriceRunCount = 0
    /\ currencyChanges = 0

\* The position ids asked for.
PositionIds == {"1", "2"}

\* The store after its constructor: no id is being fetched, no query of the
\* map has data, nothing was asked for.
NoPositionQueries ==
    /\ fetchingPositionIds = {}
    /\ positionHasData = [id \in PositionIds |-> FALSE]
    /\ positionFetches = [id \in PositionIds |-> 0]
    /\ positionFetchCount = [id \in PositionIds |-> 0]
    /\ positionCalls = [id \in PositionIds |-> 0]

\* getFeeChargePerSwapStepOutGivenIn has not been called.
NoFeeCall ==
    /\ feeInput = [hasReachedTarget |-> FALSE, amountIn |-> 0,
                   amountSpecifiedRemaining |-> 0, swapFee |-> 0]
    /\ feeCall = [op |-> "none", threw |-> FALSE, feeChargeTotal |-> 0]

\* ------------------------------------------------------------------------
\* Pools handed to the router (RoutablePool)
\* ------------------------------------------------------------------------
Denoms == {"A", "B", "C"}

\* The pools routers are built from.  tvl is what getPoolTotalValueLocked
\* answers for the pool, liq the reserve of each side, limit what a weighted
\* pool answers to getLimitAmountByTokenIn.
PoolUniverse ==
    << [id |-> 1, type |-> "weighted",     denoms |-> <<"A", "B">>, tvl |-> 2, liq |-> 40, limit |-> 12],
       [id |-> 2, type |-> "weighted",     denoms |-> <<"B", "C">>, tvl |-> 2, liq |-> 40, limit |-> 12],
       [id |-> 3, type |-> "weighted",     denoms |-> <<"A", "C">>, tvl |-> 3, liq |-> 40, limit |-> 3],
       [id |-> 4, type |-> "concentrated", denoms |-> <<"A", "C">>, tvl |-> 4, liq |-> 12, limit |-> 0],
       [id |-> 5, type |-> "weighted",     denoms |-> <<"A", "C">>, tvl |-> 1, liq |-> 3,  limit |-> 1],
       [id |-> 6, type |-> "weighted",     denoms |-> <<"A", "B">>, tvl |-> 1, liq |-> 40, limit |-> 12],
       [id |-> 7, type |-> "weighted",     denoms |-> <<"B", "C">>, tvl |-> 1, liq |-> 0,  limit |-> 0] >>

\* The sub-lists of the first n pools of the universe, in the universe's order.
RECURSIVE SubLists(_)
SubLists(n) ==
    IF n = 0 THEN {<<>>}
    ELSE With(SubLists(n - 1), LAMBDA shorter :
              shorter \cup (IF n <= Len(PoolUniverse)
                            THEN {Append(s, PoolUniverse[n]) : s \in shorter}
                            ELSE {}))

\* Array.prototype.sort with the consistent comparator aTvl - bTvl: a stable
\* ascending sort.
RECURSIVE InsertByTvl(_, _)
InsertByTvl(sorted, p) ==
    IF sorted = <<>> THEN <<p>>
    ELSE IF sorted[Len(sorted)].tvl - p.tvl > 0
         THEN Append(InsertByTvl(SubSeq(sorted, 1, Len(sorted) - 1), p), sorted[Len(sorted)])
         ELSE Append(sorted, p)

RECURSIVE SortByTvl(_)
SortByTvl(ps) ==
    IF ps = <<>> THEN <<>>
    ELSE InsertByTvl(SortByTvl(SubSeq(ps, 1, Len(ps) - 1)), ps[Len(ps)])

\* The reduce that lifts preferred pools to the front: unshift for a preferred
\* pool, push for any other.
RECURSIVE LiftPreferred(_, _, _)
LiftPreferred(ps, preferredPoolIds, acc) ==
    IF ps = <<>> THEN acc
    ELSE LiftPreferred(Tail(ps), preferredPoolIds,
                       IF Head(ps).id \in preferredPoolIds
                       THEN <<Head(ps)>> \o acc
                       ELSE Append(acc, Head(ps)))

\* constructor: this._sortedPools
ConstructSortedPools(pools, preferredPoolIds) ==
    LiftPreferred(SortByTvl(pools), preferredPoolIds, <<>>)

\* ------------------------------------------------------------------------
\* Route discovery: getCandidateRoutes / findRoutes
\* ------------------------------------------------------------------------
Route(poolIdxs, tokenOutDenoms, tokenInDenom) ==
    [pools |-> poolIdxs, tokenOutDenoms |-> tokenOutDenoms, tokenInDenom |-> tokenInDenom]

\* The nested forEach of findRoutes: the last denomination of curPool (in the
\* pool's order) that is also among previousTokenOuts, or NoEntry.
RECURSIVE TokenMatch(_, _, _)
TokenMatch(poolDenoms, previousTokenOuts, found) ==
    IF poolDenoms = <<>> THEN found
    ELSE TokenMatch(Tail(poolDenoms), previousTokenOuts,
                    IF Head(poolDenoms) \in Range(previousTokenOuts)
                    THEN Head(poolDenoms) ELSE found)

PrevPoolCurPoolTokenMatch(curPool, previousTokenOuts) ==
    TokenMatch(curPool.denoms, previousTokenOuts, NoEntry)

FilterOut(s, d) == SelectSeq(s, LAMBDA x : x # d)

\* Array.prototype.pop: no effect on an empty array.
Pop(s) == IF s = <<>> THEN s ELSE SubSeq(s, 1, Len(s) - 1)

\* Whether findRoutes records the matched token as an intermediate hop token.
RecordsHopToken(routeLen, match, tokenInDenom, tokenOutDenom) ==
    routeLen > 1 /\ match # tokenInDenom /\ match # tokenOutDenom

\* a search with no limit on the hops
NeverBeyondMaxHops(currentRoute, mh) == FALSE

\* if (currentRoute.length > this._maxHops) return;
BeyondMaxHops(currentRoute, mh) == Len(currentRoute) > mh

\* a loop that leaves the mark of the pool it went through
KeepMark(poolsUsed, i) == poolsUsed

\* poolsUsed[i] = false
Unmark(poolsUsed, i) == poolsUsed \ {i}

\* findRoutes: currentRoute holds indices into sp (the sorted pools); the
\* result carries the routes found so far and the two arrays shared by every
\* level of the recursion, currentTokenOuts and poolsUsed (the set of the
\* indices marked true).
RECURSIVE FindRoutes(_, _, _, _, _, _, _, _, _, _)
RECURSIVE FindRoutesLoop(_, _, _, _, _, _, _, _, _, _, _)
FindRoutes(sp, mh, mr, tokenInDenom, tokenOutDenom, currentRoute, currentTokenOuts, poolsUsed, previousTokenOuts, routes) ==
    IF BeyondMaxHops(currentRoute, mh)
    THEN [routes |-> routes, outs |-> currentTokenOuts, used |-> poolsUsed]
    ELSE IF Len(currentRoute) > 0
            /\ tokenOutDenom \in Range(sp[currentRoute[Len(currentRoute)]].denoms)
    THEN [routes |-> Append(routes,
                            Route([k \in 1..Len(currentRoute) |-> sp[currentRoute[k]].id],
                                  Append(currentTokenOuts, tokenOutDenom),
                                  tokenInDenom)),
          outs |-> currentTokenOuts, used |-> poolsUsed]
    ELSE IF Len(routes) > mr
    THEN [routes |-> routes, outs |-> currentTokenOuts, used |-> poolsUsed]
    ELSE FindRoutesLoop(sp, mh, mr, tokenInDenom, tokenOutDenom, currentRoute,
                        currentTokenOuts, poolsUsed, previousTokenOuts, routes, 1)

FindRoutesLoop(sp, mh, mr, tokenInDenom, tokenOutDenom, currentRoute, currentTokenOuts, poolsUsed, previousTokenOuts, routes, i) ==
    IF i > Len(sp)
    THEN [routes |-> routes, outs |-> currentTokenOuts, used |-> poolsUsed]
    ELSE IF i \in poolsUsed
    THEN FindRoutesLoop(sp, mh, mr, tokenInDenom, tokenOutDenom, currentRoute,
                        currentTokenOuts, poolsUsed, previousTokenOuts, routes, i + 1)
    ELSE
      With(PrevPoolCurPoolTokenMatch(sp[i], previousTokenOuts), LAMBDA match :
        IF match = NoEntry
        THEN FindRoutesLoop(sp, mh, mr, tokenInDenom, tokenOutDenom, currentRoute,
                            currentTokenOuts, poolsUsed, previousTokenOuts, routes, i + 1)
        ELSE
          With(FindRoutes(sp, mh, mr, tokenInDenom, tokenOutDenom,
                          Append(currentRoute, i),
                          IF RecordsHopToken(Len(currentRoute) + 1, match,
                                             tokenInDenom, tokenOutDenom)
                          THEN Append(currentTokenOuts, match)
                          ELSE currentTokenOuts,
                          poolsUsed \cup {i},
                          FilterOut(sp[i].denoms, match), routes),
               LAMBDA r :
                 FindRoutesLoop(sp, mh, mr, tokenInDenom, tokenOutDenom, currentRoute,
                                Pop(r.outs), Unmark(r.used, i), previousTokenOuts,
                                r.routes, i + 1)))

CacheKey(tokenInDenom, tokenOutDenom) == <<tokenInDenom, tokenOutDenom>>

\* A reference to an array no cache entry holds.
FreshRef == <<>>

NoRoutesCached == [has |-> FALSE, routes |-> <<>>]

\* The outermost findRoutes call, on a poolsUsed array filled with false.
SearchEnd(sp, mh, mr, tokenInDenom, tokenOutDenom) ==
    FindRoutes(sp, mh, mr, tokenInDenom, tokenOutDenom, <<>>, <<>>, {},
               <<tokenInDenom>>, <<>>)

\* The routes a fresh search finds (the array stored in the cache).
SearchRoutes(sp, mh, mr, tokenInDenom, tokenOutDenom) ==
    SearchEnd(sp, mh, mr, tokenInDenom, tokenOutDenom).routes

\* getCandidateRoutes: [routes, ref, cache].  ref names the array handed back:
\* the cached array itself on a hit (an empty array is a hit too), a new array
\* (the filter's) otherwise.
getCandidateRoutes(sp, mh, mr, cache, tokenInDenom, tokenOutDenom) ==
    With(CacheKey(tokenInDenom, tokenOutDenom), LAMBDA cacheKey :
      IF Len(sp) = 0
      THEN [routes |-> <<>>, ref |-> FreshRef, cache |-> cache]
      ELSE IF cache[cacheKey].has
      THEN [routes |-> cache[cacheKey].routes, ref |-> cacheKey, cache |-> cache]
      ELSE With(SearchRoutes(sp, mh, mr, tokenInDenom, tokenOutDenom), LAMBDA routes :
             [routes |-> SelectSeq(routes, LAMBDA r : Len(r.pools) <= mh),
              ref    |-> FreshRef,
              cache  |-> [cache EXCEPT ![cacheKey] = [has |-> TRUE, routes |-> routes]]]))

\* ------------------------------------------------------------------------
\* Quoting a route: calculateTokenOutByTokenIn on one route
\* ------------------------------------------------------------------------
\* A rejected promise / thrown error, where an amount is expected.
Err == 0 - 1

PoolById(sp, id) == CHOOSE p \in Range(sp) : p.id = id

\* RoutablePool.getTokenOutByTokenIn, the amount only: a constant-product
\* quote on equal reserves; the denominations must be two distinct assets of
\* the pool.
poolGetTokenOutByTokenIn(pool, tokenInDenom, amount, tokenOutDenom) ==
    IF tokenInDenom = tokenOutDenom
       \/ tokenInDenom \notin Range(pool.denoms)
       \/ tokenOutDenom \notin Range(pool.denoms)
    THEN Err
    ELSE (pool.liq * amount) \div (pool.liq + amount)

\* validateRoutes: every hop of a route has its token-out denomination.
validateRoutes(route) == Len(route.pools) = Len(route.tokenOutDenoms)

\* The hop loop of calculateTokenOutByTokenIn for a single route: the first hop
\* that yields nothing ends the calculation with amount 0.
RECURSIVE HopOut(_, _, _, _, _)
HopOut(sp, route, i, previousInDenom, previousInAmount) ==
    With(poolGetTokenOutByTokenIn(PoolById(sp, route.pools[i]), previousInDenom,
                                  previousInAmount, route.tokenOutDenoms[i]),
         LAMBDA tokenOut :
           IF tokenOut = Err THEN Err
           ELSE IF ~(tokenOut > 0) THEN tokenOut
           ELSE IF i = Len(route.pools) THEN tokenOut
           ELSE HopOut(sp, route, i + 1, route.tokenOutDenoms[i], tokenOut))

\* calculateTokenOutByTokenIn([route]).amount
calculateTokenOutByTokenIn(sp, route, initialAmount) ==
    IF ~validateRoutes(route) THEN Err
    ELSE IF initialAmount = 0 THEN Err
    ELSE HopOut(sp, route, 1, route.tokenInDenom, initialAmount)

\* The route loop of calculateTokenOutByTokenIn(routes): the amounts out of
\* the routes are summed; the first hop that yields nothing ends the
\* calculation with that amount.
RECURSIVE RoutesOut(_, _, _, _)
RoutesOut(sp, routes, k, totalOutAmount) ==
    IF k > Len(routes) THEN totalOutAmount
    ELSE With(HopOut(sp, routes[k].route, 1, routes[k].route.tokenInDenom,
                     routes[k].initialAmount),
              LAMBDA tokenOut :
                IF tokenOut = Err THEN Err
                ELSE IF ~(tokenOut > 0) THEN tokenOut
                ELSE RoutesOut(sp, routes, k + 1, totalOutAmount + tokenOut))

\* calculateTokenOutByTokenIn(routes).amount
calculateTokenOutByTokenInRoutes(sp, routes) ==
    IF \E k \in 1..Len(routes) : ~validateRoutes(routes[k].route) THEN Err
    ELSE IF SumSeq([k \in 1..Len(routes) |-> routes[k].initialAmount]) = 0 THEN Err
    ELSE RoutesOut(sp, routes, 1, 0)

\* ------------------------------------------------------------------------
\* The split search: findBestSplitTokenIn / splitRecursive
\* ------------------------------------------------------------------------
\* The two versions of the router in the repository.
V7 == "part_007"
V8 == "part_008"

\* findBestSplitTokenIn's default maxIterations
DefaultMaxIterations == 10

\* cacheKeyForRoute: the route's pools and hop denominations and the amount.
cacheKeyForRoute(route, initialAmount) ==
    <<route.pools, route.tokenOutDenoms, route.tokenInDenom, initialAmount>>

CacheHas(ocache, key) == \E e \in ocache : e.k = key
CacheGet(ocache, key) == (CHOOSE e \in ocache : e.k = key).v

\* a quote that simulates whatever the cache holds
QuoteAllocationUncached(version, sp, ocache, route, inAmount) ==
    With(calculateTokenOutByTokenIn(sp, route, inAmount), LAMBDA amount :
      [amount |-> amount, hit |-> FALSE, cache |-> ocache])

\* a quote whose cache keeps the latest amount only
QuoteAllocationKeepingLatest(version, sp, ocache, route, inAmount) ==
    With(calculateTokenOutByTokenIn(sp, route, inAmount), LAMBDA amount :
      [amount |-> amount, hit |-> FALSE,
       cache  |-> IF version = V7 /\ amount # Err
                  THEN {[k |-> cacheKeyForRoute(route, inAmount), v |-> amount]}
                  ELSE ocache])

\* The route quotes of split searches: the [k, v] simulated for a key not
\* simulated before, those simulated for a key simulated before, and those
\* served from the cache.
NoQuotes == [once |-> {}, again |-> {}, served |-> {}]

\* The log after one quote of the search: a quote that threw is not logged.
LogQuote(log, q, key) ==
    IF q.amount = Err THEN log
    ELSE IF q.hit THEN [log EXCEPT !.served = @ \cup {[k |-> key, v |-> q.amount]}]
    ELSE IF \E e \in log.once : e.k = key
    THEN [log EXCEPT !.again = @ \cup {[k |-> key, v |-> q.amount]}]
    ELSE [log EXCEPT !.once = @ \cup {[k |-> key, v |-> q.amount]}]

\* The log of the router after a call whose searches logged new.
MergeLogs(log, new) ==
    [once   |-> log.once \cup {e \in new.once : ~\E f \in log.once : f.k = e.k},
     again  |-> log.again \cup new.again
                  \cup {e \in new.once : \E f \in log.once : f.k = e.k},
     served |-> log.served \cup new.served]

\* The quote of one candidate allocation: [amount, cache].  part_007 looks the
\* amount up in _calcRouteOutAmtGivenInAmtCache first and stores what it
\* computes; part_008 computes every time.
QuoteAllocation(version, sp, ocache, route, inAmount) ==
    With(cacheKeyForRoute(route, inAmount), LAMBDA key :
      IF version = V7 /\ CacheHas(ocache, key)
      THEN [amount |-> CacheGet(ocache, key), hit |-> TRUE, cache |-> ocache]
      ELSE With(calculateTokenOutByTokenIn(sp, route, inAmount), LAMBDA amount :
             [amount |-> amount, hit |-> FALSE,
              cache  |-> IF version = V7 /\ amount # Err
                         THEN ocache \cup {[k |-> key, v |-> amount]}
                         ELSE ocache]))

\* totalOutAmount.gt(bestOutAmount)
IsBetterThanNothing(totalOutAmount, bestOutAmount) == totalOutAmount > 0

IsBetterSplit(totalOutAmount, bestOutAmount) == totalOutAmount > bestOutAmount

\* new Dec(remainingInAmount).mul(new Dec(i).quo(new Dec(maxIterations))).truncate()
FractionOf(remainingInAmount, i, maxIterations) == (remainingInAmount * i) \div maxIterations

\* What bestSplit holds of the leaf's routes: part_007 copies the amounts,
\* part_008 keeps the route objects themselves (currentSplit.slice()).
BestSplitAtLeaf(version, currentSplit, objs) ==
    [k \in 1..Len(currentSplit) |->
        [idx           |-> currentSplit[k],
         copied        |-> version = V7,
         initialAmount |-> objs[currentSplit[k]].initialAmount,
         outAmount     |-> objs[currentSplit[k]].outAmount]]

\* splitRecursive.  routes are the candidates, objs[r] the mutable amounts of
\* route object r, r the first of the remaining routes, currentSplit the
\* indices pushed so far; acc carries bestOutAmount, bestSplit, the output
\* cache, the route objects and a thrown error.
RECURSIVE SplitRecursive(_, _, _, _, _, _, _, _)
RECURSIVE SplitLoop(_, _, _, _, _, _, _, _, _)
SplitRecursive(version, sp, routes, maxIterations, remainingInAmount, r, currentSplit, acc) ==
    IF r > Len(routes)
    THEN With(SumSeq([k \in 1..Len(currentSplit) |-> acc.objs[currentSplit[k]].outAmount]),
              LAMBDA totalOutAmount :
                IF IsBetterSplit(totalOutAmount, acc.bestOutAmount)
                THEN [acc EXCEPT !.bestOutAmount = totalOutAmount,
                                 !.bestSplit = BestSplitAtLeaf(version, currentSplit, acc.objs)]
                ELSE acc)
    ELSE SplitLoop(version, sp, routes, maxIterations, remainingInAmount, r, currentSplit,
                   acc, 0)

SplitLoop(version, sp, routes, maxIterations, remainingInAmount, r, currentSplit, acc, i) ==
    IF i > maxIterations \/ acc.err
    THEN acc
    ELSE
      With(FractionOf(remainingInAmount, i, maxIterations), LAMBDA inAmount :
        IF inAmount = 0
        THEN SplitLoop(version, sp, routes, maxIterations, remainingInAmount, r,
                       currentSplit, acc, i + 1)
        ELSE
          With(QuoteAllocation(version, sp, acc.cache, routes[r], inAmount), LAMBDA q :
          With([acc EXCEPT !.objs[r].initialAmount = inAmount, !.cache = q.cache,
                           !.log = LogQuote(@, q, cacheKeyForRoute(routes[r], inAmount))],
               LAMBDA acc1 :
            IF q.amount = Err
            THEN [acc1 EXCEPT !.err = TRUE]
            ELSE IF q.amount = 0
            THEN SplitLoop(version, sp, routes, maxIterations, remainingInAmount, r,
                           currentSplit, acc1, i + 1)
            ELSE
              SplitLoop(version, sp, routes, maxIterations, remainingInAmount, r,
                        currentSplit,
                        SplitRecursive(version, sp, routes, maxIterations,
                                       remainingInAmount - inAmount, r + 1,
                                       Append(currentSplit, r),
                                       [acc1 EXCEPT !.objs[r].outAmount = q.amount]),
                        i + 1))))

\* One entry of a returned split: a route with its initialAmount.
Allocation(route, initialAmount) == [route |-> route, initialAmount |-> initialAmount]

SplitResult(err, split, ocache, log) ==
    [err |-> err, split |-> split, cache |-> ocache, log |-> log]

\* The split as the caller reads it after the search: a copied entry keeps the
\* leaf's amount, an entry that is the route object shows the object's last
\* assigned amount.
ReturnedSplit(routes, bestSplit, objs) ==
    [k \in 1..Len(bestSplit) |->
        Allocation(routes[bestSplit[k].idx],
                   IF bestSplit[k].copied
                   THEN bestSplit[k].initialAmount
                   ELSE objs[bestSplit[k].idx].initialAmount)]

SplitTotal(split) == SumSeq([k \in 1..Len(split) |-> split[k].initialAmount])

\* Whether findBestSplitTokenIn rejects the winning split for lack of
\* liquidity: part_007 compares its total with the requested amount, part_008
\* has no such check.
ThrowsNotEnoughLiquidity(version, split, tokenInAmount) ==
    version = V7 /\ SplitTotal(split) < tokenInAmount

\* maxIterations <= 0 (part_007), maxIterations === 0 (part_008)
BadMaxIterations(version, maxIterations) ==
    IF version = V7 THEN maxIterations <= 0 ELSE maxIterations = 0

findBestSplitTokenIn(version, sp, ocache, sortedOptimalRoutes, tokenInAmount, maxIterations) ==
    IF BadMaxIterations(version, maxIterations)
    THEN SplitResult("Error", <<>>, ocache, NoQuotes)
    ELSE IF Len(sortedOptimalRoutes) = 0
    THEN SplitResult("none", <<>>, ocache, NoQuotes)
    ELSE IF Len(sortedOptimalRoutes) = 1
    THEN SplitResult("none", <<Allocation(sortedOptimalRoutes[1], tokenInAmount)>>, ocache,
                     NoQuotes)
    ELSE
      With(SplitRecursive(version, sp, sortedOptimalRoutes, maxIterations,
                          tokenInAmount, 1, <<>>,
                          [bestOutAmount |-> 0, bestSplit |-> <<>>, cache |-> ocache,
                           objs |-> [k \in 1..Len(sortedOptimalRoutes) |->
                                       [initialAmount |-> 0, outAmount |-> 0]],
                           err |-> FALSE, log |-> NoQuotes]),
           LAMBDA acc :
      With(ReturnedSplit(sortedOptimalRoutes, acc.bestSplit, acc.objs), LAMBDA split :
        IF acc.err
        THEN SplitResult("Error", <<>>, acc.cache, acc.log)
        ELSE IF ThrowsNotEnoughLiquidity(version, split, tokenInAmount)
        THEN SplitResult("NotEnoughLiquidityError", <<>>, acc.cache, acc.log)
        ELSE SplitResult("none", split, acc.cache, acc.log)))

\* ------------------------------------------------------------------------
\* getOptimizedRoutesByTokenIn (part_007)
\* ------------------------------------------------------------------------
\* invertRoute: the pools backwards, the hop denominations backwards without
\* the old final one and ending in the old token-in.
invertRoute(route) ==
    Route(Reverse(route.pools),
          Append(Tail(Reverse(route.tokenOutDenoms)), route.tokenInDenom),
          route.tokenOutDenoms[Len(route.tokenOutDenoms)])

MinOf(S) == CHOOSE x \in S : \A y \in S : x <= y

\* calculateWeightForRoute: the smallest total value locked among the route's
\* pools.
calculateWeightForRoute(sp, route) ==
    MinOf({PoolById(sp, route.pools[k]).tvl : k \in 1..Len(route.pools)})

\* routes = [...routes, ...invertedRoutes]: the merged list and the array that
\* holds it, a new one.
PushOntoForward(forward, inverted) ==
    [routes |-> forward.routes \o inverted, ref |-> forward.ref]

SpreadRoutes(forward, inverted) ==
    [routes |-> forward.routes \o inverted, ref |-> FreshRef]

\* An array written in place: a cached array changes in the cache.
WriteArray(cache, ref, routes) ==
    IF ref = FreshRef THEN cache
    ELSE [cache EXCEPT ![ref] = [has |-> TRUE, routes |-> routes]]

SortPrefixLen == 3

\* routes.sort with the comparator (gte ? -1 : 1), which never answers 0: the
\* order of routes of equal weight is the engine's.  An outcome is given by
\* its first SortPrefixLen places (all the caller reads): a heavier route
\* never follows a lighter one.
SortOutcomes(routes, weights) ==
    LET n == Len(routes)
        m == IF n < SortPrefixLen THEN n ELSE SortPrefixLen
        idx == {o \in [1..m -> 1..n] :
                  /\ \A a, b \in 1..m : a < b => o[a] # o[b] /\ weights[o[a]] >= weights[o[b]]
                  /\ \A j \in 1..n : (\A a \in 1..m : o[a] # j)
                                        => \A a \in 1..m : weights[o[a]] >= weights[j]}
    IN {[k \in 1..m |-> routes[o[k]]] : o \in idx}

\* RoutablePool.getLimitAmountByTokenIn: a weighted pool answers its limit, a
\* concentrated-liquidity pool throws ("Not implemented").
getLimitAmountByTokenIn(pool, denom) ==
    IF denom \notin Range(pool.denoms) THEN Err
    ELSE IF pool.type = "concentrated" THEN Err
    ELSE pool.limit

\* The candidates kept after the direct-route check, or an error: [err, routes].
\* sorted is the head of the sorted list, n the length of the whole list.
AfterDirectCheck(sp, sorted, n, tokenInDenom, amount) ==
    IF n > 1 /\ Len(sorted[1].pools) = 1
    THEN With(getLimitAmountByTokenIn(PoolById(sp, sorted[1].pools[1]), tokenInDenom),
              LAMBDA directSwapLimit :
                IF directSwapLimit = Err
                THEN [err |-> TRUE, routes |-> <<>>]
                ELSE IF directSwapLimit < amount
                THEN [err |-> FALSE, routes |-> Tail(sorted)]
                ELSE [err |-> FALSE, routes |-> sorted])
    ELSE [err |-> FALSE, routes |-> sorted]

\* routes.slice(0, n)
FirstRoutes(routes, n) == SubSeq(routes, 1, IF Len(routes) < n THEN Len(routes) ELSE n)

Top2(routes) == FirstRoutes(routes, 2)

\* The merged candidate list of a call and the path cache after the two
\* searches.
MergedCandidates(sp, mh, mr, cache, tokenInDenom, tokenOutDenom) ==
    With(getCandidateRoutes(sp, mh, mr, cache, tokenInDenom, tokenOutDenom),
         LAMBDA forward :
    With(getCandidateRoutes(sp, mh, mr, forward.cache, tokenOutDenom, tokenInDenom),
         LAMBDA reverse :
    With(SpreadRoutes(forward, [k \in 1..Len(reverse.routes) |->
                                   invertRoute(reverse.routes[k])]),
         LAMBDA merged :
      [routes |-> merged.routes, ref |-> merged.ref, cache |-> reverse.cache])))

\* if (routes.length === 0) throw new NoRouteError()
NeverThrowsNoRoute(routes) == Len(routes) < 0

ThrowsNoRoute(routes) == Len(routes) = 0

OptimizedResult(err, split, cache, ocache, top2, log) ==
    [err |-> err, split |-> split, cache |-> cache, ocache |-> ocache, top2 |-> top2,
     log |-> log]

\* getOptimizedRoutesByTokenIn, given the outcome of the sort.
getOptimizedRoutesByTokenIn(sp, mh, mr, cache, ocache, tokenInDenom, amount, tokenOutDenom, sorted) ==
    IF ~(amount > 0) \/ Len(sp) = 0
    THEN OptimizedResult("none", <<>>, cache, ocache, <<>>, NoQuotes)
    ELSE
      With(MergedCandidates(sp, mh, mr, cache, tokenInDenom, tokenOutDenom),
           LAMBDA merged :
        IF ThrowsNoRoute(merged.routes)
        THEN OptimizedResult("NoRouteError", <<>>, merged.cache, ocache, <<>>, NoQuotes)
        ELSE
          With(WriteArray(merged.cache, merged.ref, sorted), LAMBDA cache1 :
          With(AfterDirectCheck(sp, sorted, Len(merged.routes), tokenInDenom, amount),
               LAMBDA kept :
            IF kept.err
            THEN OptimizedResult("Error", <<>>, cache1, ocache, <<>>, NoQuotes)
            ELSE
              With(Top2(kept.routes), LAMBDA top2Routes :
              With(findBestSplitTokenIn(V7, sp, ocache, top2Routes, amount,
                                        DefaultMaxIterations),
                   LAMBDA res :
                OptimizedResult(res.err, res.split, cache1, res.cache, top2Routes,
                                res.log))))))

\* The outcomes of the sort of a call's merged candidates.
SortedCandidates(sp, mh, mr, cache, tokenInDenom, tokenOutDenom) ==
    With(MergedCandidates(sp, mh, mr, cache, tokenInDenom, tokenOutDenom).routes,
         LAMBDA merged :
           SortOutcomes(merged,
                        [k \in 1..Len(merged) |-> calculateWeightForRoute(sp, merged[k])]))

\* ------------------------------------------------------------------------
\* The router as a state machine
\* ------------------------------------------------------------------------
TradePairs == {<<"A", "C">>, <<"C", "A">>, <<"A", "B">>}
TradeAmounts == {1, 10}

AllKeys == {CacheKey(a, b) : a \in Denoms, b \in Denoms}

NoCall == [op |-> "none", version |-> V7, tokenInDenom |-> "A", tokenOutDenom |-> "A",
           amount |-> 0, err |-> "none", split |-> <<>>, routes |-> <<>>,
           ranked |-> <<>>, out |-> 0]

\* the hop limits routers are constructed with in SpecRouter: the default
\* and one that the pools of the universe can exceed
HopLimits == {2, 4}

\* new OptimizedRoutes({pools, maxHops = 4, maxRoutes = 4})
Construct(pools, hops) ==
    /\ sortedPools = ConstructSortedPools(pools, {})
    /\ maxHops = hops
    /\ maxRoutes = 4
    /\ candidatePathsCache = [k \in AllKeys |-> NoRoutesCached]
    /\ routeOutCache = {}
    /\ quoteLog = NoQuotes
    /\ calls = 0
    /\ firstReturned = [k \in AllKeys |-> [count |-> 0, routes |-> <<>>]]
    /\ last = NoCall

RouterInit ==
    /\ \E pools \in SubLists(MaxPools), hops \in HopLimits : Construct(pools, hops)
    /\ callLimit = MaxCalls
    /\ NoSwap
    /\ PoolConstructed
    /\ ProviderConstructed
    /\ NoTickCall
    /\ NoTradeConfig
    /\ NoFeeCall
    /\ NoPositionQueries

SessionInit ==
    /\ \E pools \in SubLists(MaxSessionPools) : Construct(pools, 4)
    /\ callLimit = MaxSessionCalls
    /\ NoSwap
    /\ PoolConstructed
    /\ ProviderConstructed
    /\ NoTickCall
    /\ NoTradeConfig
    /\ NoFeeCall
    /\ NoPositionQueries

\* router.getOptimizedRoutesByTokenIn({denom, amount}, tokenOutDenom)
GetOptimizedRoutesByTokenIn ==
    /\ calls < callLimit
    /\ \E pair \in TradePairs, amount \in TradeAmounts :
      \E sorted \in SortedCandidates(sortedPools, maxHops, maxRoutes, candidatePathsCache,
                                      pair[1], pair[2]) :
        \E res \in {getOptimizedRoutesByTokenIn(sortedPools, maxHops, maxRoutes,
                                                candidatePathsCache, routeOutCache,
                                                pair[1], amount, pair[2], sorted)} :
           /\ candidatePathsCache' = res.cache
           /\ routeOutCache' = res.ocache
           /\ quoteLog' = MergeLogs(quoteLog, res.log)
           /\ calls' = calls + 1
           /\ last' = [op |-> "getOptimizedRoutesByTokenIn", version |-> V7,
                       tokenInDenom |-> pair[1], tokenOutDenom |-> pair[2],
                       amount |-> amount, err |-> res.err, split |-> res.split,
                       routes |-> res.top2, ranked |-> sorted, out |-> 0]
           /\ UNCHANGED <<sortedPools, maxHops, maxRoutes, callLimit, firstReturned>>
           /\ UNCHANGED <<swapVars, poolVars, providerVars, tickVars, tradeVars, feeVars, positionVars>>

\* router.getCandidateRoutes(tokenInDenom, tokenOutDenom)
GetCandidateRoutes ==
    /\ calls < callLimit
    /\ \E pair \in TradePairs :
        \E res \in {getCandidateRoutes(sortedPools, maxHops, maxRoutes, candidatePathsCache,
                                       pair[1], pair[2])} :
           /\ candidatePathsCache' = res.cache
           /\ calls' = calls + 1
           /\ last' = [op |-> "getCandidateRoutes", version |-> V7,
                       tokenInDenom |-> pair[1], tokenOutDenom |-> pair[2],
                       amount |-> 0, err |-> "none", split |-> <<>>,
                       routes |-> res.routes, ranked |-> <<>>, out |-> 0]
           /\ firstReturned' =
                  [firstReturned EXCEPT ![CacheKey(pair[1], pair[2])] =
                      [count  |-> @.count + 1,
                       routes |-> IF @.count = 0 THEN res.routes ELSE @.routes]]
           /\ UNCHANGED <<sortedPools, maxHops, maxRoutes, routeOutCache, callLimit,
                          quoteLog>>
           /\ UNCHANGED <<swapVars, poolVars, providerVars, tickVars, tradeVars, feeVars, positionVars>>

\* router.findBestSplitTokenIn(routes, amount) of either version, on the first
\* n candidates of a pair.
FindBestSplitTokenIn ==
    /\ calls < callLimit
    /\ \E version \in {V7, V8}, pair \in {<<"A", "C">>},
       amount \in TradeAmounts, n \in 0..2 :
        \E routes \in {FirstRoutes(SearchRoutes(sortedPools, maxHops, maxRoutes,
                                                 pair[1], pair[2]), n)} :
        \E res \in {findBestSplitTokenIn(version, sortedPools, routeOutCache, routes, amount,
                                         DefaultMaxIterations)} :
           /\ routeOutCache' = res.cache
           /\ quoteLog' = MergeLogs(quoteLog, res.log)
           /\ calls' = calls + 1
           /\ last' = [op |-> "findBestSplitTokenIn", version |-> version,
                       tokenInDenom |-> pair[1], tokenOutDenom |-> pair[2],
                       amount |-> amount, err |-> res.err, split |-> res.split,
                       routes |-> routes, ranked |-> <<>>, out |-> 0]
           /\ UNCHANGED <<sortedPools, maxHops, maxRoutes, candidatePathsCache, callLimit,
                          firstReturned>>
           /\ UNCHANGED <<swapVars, poolVars, providerVars, tickVars, tradeVars, feeVars, positionVars>>

\* router.calculateTokenOutByTokenIn(split), on the split the last
\* getOptimizedRoutesByTokenIn call returned
CalculateTokenOutByTokenIn ==
    /\ calls < callLimit
    /\ last.op = "getOptimizedRoutesByTokenIn"
    /\ last.err = "none"
    /\ \E amount \in {calculateTokenOutByTokenInRoutes(sortedPools, last.split)} :
         last' = [last EXCEPT !.op = "calculateTokenOutByTokenIn",
                              !.err = IF amount = Err THEN "Error" ELSE "none",
                              !.out = IF amount = Err THEN 0 ELSE amount]
    /\ calls' = calls + 1
    /\ UNCHANGED <<sortedPools, maxHops, maxRoutes, candidatePathsCache, routeOutCache,
                   callLimit, firstReturned, quoteLog>>
    /\ UNCHANGED <<swapVars, poolVars, providerVars, tickVars, tradeVars, feeVars, positionVars>>

RouterNext ==
    \/ GetOptimizedRoutesByTokenIn
    \/ GetCandidateRoutes
    \/ FindBestSplitTokenIn

SpecRouter == RouterInit /\ [][RouterNext]_vars

SessionNext ==
    \/ GetOptimizedRoutesByTokenIn
    \/ GetCandidateRoutes
    \/ CalculateTokenOutByTokenIn

SpecRouterSession == SessionInit /\ [][SessionNext]_vars

\* ------------------------------------------------------------------------
\* Properties of the router
\* ------------------------------------------------------------------------
\* The output of a split: the sum of what its routes yield for their amounts.
SplitOut(sp, split) ==
    SumSeq([k \in 1..Len(split) |->
               calculateTokenOutByTokenIn(sp, split[k].route, split[k].initialAmount)])

ReturnedFrom(op) == last.op = op /\ last.err = "none"

\* C1: given at least one candidate route, whenever findBestSplitTokenIn (of
\* either version) returns, the initialAmount values of the returned
\* allocations sum exactly to the requested amount; otherwise it throws.
C1_SplitSumsToRequestedAmount ==
    (ReturnedFrom("findBestSplitTokenIn") /\ Len(last.routes) >= 1)
        => SplitTotal(last.split) = last.amount

\* C2 (as stated): with two candidate routes, the split findBestSplitTokenIn
\* (part_007) returns yields at least what the whole amount yields through
\* either route alone.
C2_SplitBeatsEitherRouteAlone ==
    (ReturnedFrom("findBestSplitTokenIn") /\ last.version = V7 /\ Len(last.routes) = 2)
        => \A k \in 1..2 :
              SplitOut(sortedPools, last.split)
                  >= calculateTokenOutByTokenIn(sortedPools, last.routes[k], last.amount)

\* The branches splitRecursive compares for two routes: both routes get a
\* non-zero amount on the grid of tenths and yield a non-zero output.
ComparedLeaves(sp, routes, amount) ==
    {leaf \in {[in1 |-> FractionOf(amount, i, DefaultMaxIterations),
                in2 |-> FractionOf(amount - FractionOf(amount, i, DefaultMaxIterations),
                                   j, DefaultMaxIterations)] :
                   i \in 0..DefaultMaxIterations, j \in 0..DefaultMaxIterations} :
        /\ leaf.in1 > 0
        /\ leaf.in2 > 0
        /\ calculateTokenOutByTokenIn(sp, routes[1], leaf.in1) > 0
        /\ calculateTokenOutByTokenIn(sp, routes[2], leaf.in2) > 0}

\* C2 (amended): with two candidate routes, the split findBestSplitTokenIn
\* (part_007) returns yields at least what every compared branch yields.
C2_SplitBeatsComparedLeaves ==
    (ReturnedFrom("findBestSplitTokenIn") /\ last.version = V7 /\ Len(last.routes) = 2)
        => \A leaf \in ComparedLeaves(sortedPools, last.routes, last.amount) :
              SplitOut(sortedPools, last.split)
                  >= calculateTokenOutByTokenIn(sortedPools, last.routes[1], leaf.in1)
                     + calculateTokenOutByTokenIn(sortedPools, last.routes[2], leaf.in2)

\* A two-route search of part_007 returned a split over both routes, several
\* branches having been compared.
C2_TwoRouteSplitReturned ==
    /\ ReturnedFrom("findBestSplitTokenIn")
    /\ last.version = V7
    /\ Len(last.routes) = 2
    /\ Len(last.split) = 2
    /\ Cardinality(ComparedLeaves(sortedPools, last.routes, last.amount)) > 1

\* Neither the forward search nor the reverse search of a pair finds a route.
NoCandidateRoute(sp, mh, mr, tokenInDenom, tokenOutDenom) ==
    /\ SearchRoutes(sp, mh, mr, tokenInDenom, tokenOutDenom) = <<>>
    /\ SearchRoutes(sp, mh, mr, tokenOutDenom, tokenInDenom) = <<>>

\* C3 (as stated): for any pool set and any positive amount,
\* getOptimizedRoutesByTokenIn fails with NoRouteError when neither search
\* yields a candidate route.
C3_NoCandidateIsNoRouteError ==
    (/\ last.op = "getOptimizedRoutesByTokenIn"
     /\ last.amount > 0
     /\ NoCandidateRoute(sortedPools, maxHops, maxRoutes, last.tokenInDenom,
                         last.tokenOutDenom))
        => last.err = "NoRouteError"

\* C3 (amended): for any pool set that is not empty and any positive amount,
\* getOptimizedRoutesByTokenIn fails with NoRouteError when neither search
\* yields a candidate route.
C3_NoCandidateIsNoRouteErrorGivenPools ==
    (/\ last.op = "getOptimizedRoutesByTokenIn"
     /\ last.amount > 0
     /\ Len(sortedPools) > 0
     /\ NoCandidateRoute(sortedPools, maxHops, maxRoutes, last.tokenInDenom,
                         last.tokenOutDenom))
        => last.err = "NoRouteError"

\* A router with pools was asked for a pair no route joins.
C3_NoRouteAmongPools ==
    /\ last.op = "getOptimizedRoutesByTokenIn"
    /\ last.amount > 0
    /\ Len(sortedPools) > 0
    /\ NoCandidateRoute(sortedPools, maxHops, maxRoutes, last.tokenInDenom,
                        last.tokenOutDenom)

\* A route whose hop denominations fit its pools and end in tokenOutDenom.
WellFormedRoute(sp, route, tokenOutDenom) ==
    /\ Len(route.tokenOutDenoms) = Len(route.pools)
    /\ \A i \in 1..Len(route.pools) :
          /\ route.tokenOutDenoms[i] \in Range(PoolById(sp, route.pools[i]).denoms)
          /\ i < Len(route.pools)
                => route.tokenOutDenoms[i] \in Range(PoolById(sp, route.pools[i + 1]).denoms)
    /\ route.tokenOutDenoms[Len(route.tokenOutDenoms)] = tokenOutDenom

\* C4: every route getCandidateRoutes returns is well formed: one hop
\* denomination per pool, each a denomination of its pool and of the next
\* pool, the last one the requested token-out denomination.
C4_CandidateRoutesWellFormed ==
    last.op = "getCandidateRoutes"
        => \A k \in 1..Len(last.routes) :
              WellFormedRoute(sortedPools, last.routes[k], last.tokenOutDenom)

\* C18: no route getCandidateRoutes returns goes through a pool twice, and
\* the search for the pair ends with no pool marked in poolsUsed.
C18_PoolsOncePerRouteMarksCleared ==
    last.op = "getCandidateRoutes"
        => /\ \A k \in 1..Len(last.routes) :
                \A i, j \in 1..Len(last.routes[k].pools) :
                   last.routes[k].pools[i] = last.routes[k].pools[j] => i = j
           /\ SearchEnd(sortedPools, maxHops, maxRoutes, last.tokenInDenom,
                        last.tokenOutDenom).used = {}

\* C18 witness: getCandidateRoutes returned several routes, one of them
\* through three pools.
C18_LongRouteAmongSeveral ==
    /\ last.op = "getCandidateRoutes"
    /\ Len(last.routes) >= 3
    /\ \E k \in 1..Len(last.routes) : Len(last.routes[k].pools) >= 3

\* A route through one to maxHops pools, from a pool holding tokenInDenom to
\* a pool holding tokenOutDenom.
RouteSpansPair(sp, mh, route, tokenInDenom, tokenOutDenom) ==
    /\ Len(route.pools) >= 1
    /\ Len(route.pools) <= mh
    /\ tokenInDenom \in Range(PoolById(sp, route.pools[1]).denoms)
    /\ tokenOutDenom \in Range(PoolById(sp, route.pools[Len(route.pools)]).denoms)

\* C19: every route getCandidateRoutes returns, on the call that searched and
\* on a call answered from the cache the search filled, goes through at least
\* one and at most maxHops pools, the first holding the token-in denomination
\* and the last the token-out denomination.
C19_RoutesSpanPairWithinMaxHops ==
    last.op = "getCandidateRoutes"
        => /\ \A k \in 1..Len(last.routes) :
                RouteSpansPair(sortedPools, maxHops, last.routes[k],
                               last.tokenInDenom, last.tokenOutDenom)
           /\ \A route \in Range(getCandidateRoutes(sortedPools, maxHops, maxRoutes,
                                                     candidatePathsCache, last.tokenInDenom,
                                                     last.tokenOutDenom).routes) :
                RouteSpansPair(sortedPools, maxHops, route,
                               last.tokenInDenom, last.tokenOutDenom)

\* C19 witness: under a hop limit of two, which paths among the pools exceed,
\* getCandidateRoutes returned direct and two-pool routes and the cache holds
\* the routes of the pair for the calls to come.
C19_RoutesUpToHopLimitCached ==
    /\ last.op = "getCandidateRoutes"
    /\ maxHops = 2
    /\ Len(sortedPools) = MaxPools
    /\ candidatePathsCache[CacheKey(last.tokenInDenom, last.tokenOutDenom)].has
    /\ \E k \in 1..Len(last.routes) : Len(last.routes[k].pools) = 1
    /\ \E k \in 1..Len(last.routes) : Len(last.routes[k].pools) = maxHops

\* C20: getCandidateRoutes returns at most maxRoutes + 1 routes.
C20_AtMostMaxRoutesPlusOne ==
    last.op = "getCandidateRoutes" => Len(last.routes) <= maxRoutes + 1

\* C9: every getCandidateRoutes call for a pair returns the routes, in the
\* order, that the first call for the pair returned, whatever calls of
\* getOptimizedRoutesByTokenIn came in between.
C9_CandidateRoutesRepeat ==
    last.op = "getCandidateRoutes"
        => last.routes = firstReturned[CacheKey(last.tokenInDenom, last.tokenOutDenom)].routes

\* getCandidateRoutes answered a pair a second time, with several routes,
\* after getOptimizedRoutesByTokenIn had sorted candidates and searched a split.
C9_RepeatedAfterOptimizing ==
    /\ last.op = "getCandidateRoutes"
    /\ firstReturned[CacheKey(last.tokenInDenom, last.tokenOutDenom)].count >= 2
    /\ Len(last.routes) >= 2
    /\ routeOutCache # {}

\* C10: getOptimizedRoutesByTokenIn completes (a split, or a routing error
\* of its own) when its top-ranked route is a direct route through a
\* concentrated-liquidity pool, the pool answering getLimitAmountByTokenIn.
C10_DirectConcentratedRouteCompletes ==
    (/\ last.op = "getOptimizedRoutesByTokenIn"
     /\ Len(last.ranked) >= 1
     /\ Len(last.ranked[1].pools) = 1
     /\ PoolById(sortedPools, last.ranked[1].pools[1]).type = "concentrated")
        => /\ last.err # "Error"
           /\ getLimitAmountByTokenIn(PoolById(sortedPools, last.ranked[1].pools[1]),
                                      last.tokenInDenom) # Err

\* The last call was getOptimizedRoutesByTokenIn, its top-ranked route is a
\* direct route whose limit for the token-in denomination is less than the
\* requested amount, and another candidate is ranked after it.
DirectRouteShort ==
    /\ last.op = "getOptimizedRoutesByTokenIn"
    /\ Len(last.ranked) >= 2
    /\ Len(last.ranked[1].pools) = 1
    /\ getLimitAmountByTokenIn(PoolById(sortedPools, last.ranked[1].pools[1]),
                               last.tokenInDenom) # Err
    /\ getLimitAmountByTokenIn(PoolById(sortedPools, last.ranked[1].pools[1]),
                               last.tokenInDenom) < last.amount

\* C14: a top-ranked direct route whose limit is less than the requested
\* amount is demoted below the next candidate: it is still one of the two
\* routes given to the split search, ranked second, after a different route.
C14_DirectRouteDemoted ==
    DirectRouteShort
        => /\ Len(last.routes) = 2
           /\ last.routes[1] # last.ranked[1]
           /\ last.routes[2] = last.ranked[1]

\* The initialAmount values that the routes had at the leaf of the search
\* where bestSplit was recorded.
BestLeafAmounts(version, sp, ocache, routes, tokenInAmount, maxIterations) ==
    With(SplitRecursive(version, sp, routes, maxIterations, tokenInAmount, 1, <<>>,
                        [bestOutAmount |-> 0, bestSplit |-> <<>>, cache |-> ocache,
                         objs |-> [k \in 1..Len(routes) |->
                                     [initialAmount |-> 0, outAmount |-> 0]],
                         err |-> FALSE, log |-> NoQuotes]),
         LAMBDA acc : [k \in 1..Len(acc.bestSplit) |-> acc.bestSplit[k].initialAmount])

\* C27: the allocations findBestSplitTokenIn (of either version) returns for
\* two or more routes are the initialAmount values the routes had at the leaf
\* where the best total output was recorded; the iterations after that leaf
\* do not change them.
C27_SplitKeepsBestLeafAmounts ==
    [][(/\ calls' = calls + 1
        /\ last'.op = "findBestSplitTokenIn"
        /\ last'.err = "none"
        /\ Len(last'.routes) >= 2)
         => [k \in 1..Len(last'.split) |-> last'.split[k].initialAmount]
               = BestLeafAmounts(last'.version, sortedPools, routeOutCache, last'.routes,
                                 last'.amount, DefaultMaxIterations)]_vars

\* C26: the candidate list that getOptimizedRoutesByTokenIn passes to the
\* split search never holds two entries with the same ordered pool-id
\* sequence, and the returned split allocates to no pool sequence twice.
C26_NoRouteTwiceAmongCandidates ==
    last.op = "getOptimizedRoutesByTokenIn"
        => /\ \A i, j \in 1..Len(last.routes) :
                i < j => last.routes[i].pools # last.routes[j].pools
           /\ \A i, j \in 1..Len(last.split) :
                i < j => last.split[i].route.pools # last.split[j].route.pools

\* The routes sorted by non-increasing weight, routes of equal weight in the
\* order of the list: each route goes behind the routes before it that weigh
\* as much or more.
RECURSIVE ByWeightInDiscoveryOrder(_, _)
ByWeightInDiscoveryOrder(sp, routes) ==
    IF routes = <<>> THEN <<>>
    ELSE With(ByWeightInDiscoveryOrder(sp, SubSeq(routes, 1, Len(routes) - 1)),
              LAMBDA before :
         With(Cardinality({k \in 1..Len(before) :
                             calculateWeightForRoute(sp, before[k])
                                 >= calculateWeightForRoute(sp, routes[Len(routes)])}),
              LAMBDA n :
           SubSeq(before, 1, n) \o <<routes[Len(routes)]>>
               \o SubSeq(before, n + 1, Len(before))))

\* C15: the candidates getOptimizedRoutesByTokenIn ranks before the split
\* search are the merged candidates in the order of non-increasing weight,
\* routes of equal weight in their discovery order.
C15_RankedByWeightThenDiscovery ==
    last.op = "getOptimizedRoutesByTokenIn"
        => last.ranked
             = FirstRoutes(ByWeightInDiscoveryOrder(sortedPools,
                               MergedCandidates(sortedPools, maxHops, maxRoutes,
                                                candidatePathsCache, last.tokenInDenom,
                                                last.tokenOutDenom).routes),
                           SortPrefixLen)

\* C21: in the split searches of one router (part_007) the output of a route
\* for an input amount is simulated at most once, and every quote served
\* from the cache is the amount that simulation gave, zero included.
C21_RouteQuoteSimulatedOnce ==
    /\ quoteLog.again = {}
    /\ \A h \in quoteLog.served : h \in quoteLog.once

\* C21 witness: a later search was served, from the cache, a zero amount and
\* a positive amount that earlier quotes had simulated.
C21_ZeroQuoteServedFromCache ==
    /\ calls >= 2
    /\ \E h \in quoteLog.served : h.v = 0
    /\ \E h \in quoteLog.served : h.v > 0

\* One step leaves every entry of the two caches as it is: a key of the route
\* cache that holds a list keeps that list, an entry of the output cache stays
\* and its key gets no second value.
CachesKeepEntries ==
    /\ \A key \in AllKeys :
          candidatePathsCache[key].has => candidatePathsCache'[key] = candidatePathsCache[key]
    /\ \A e \in routeOutCache : e \in routeOutCache'
    /\ \A e \in routeOutCache' : CacheHas(routeOutCache, e.k) => e \in routeOutCache

\* C16: the route cache and the per-route output cache of a router are
\* append-only: no call of getOptimizedRoutesByTokenIn, getCandidateRoutes or
\* calculateTokenOutByTokenIn removes an entry or replaces its value.
C16_CachesAppendOnly == [][CachesKeepEntries]_vars

\* C16 witness: after calls on a router whose caches hold entries (routes for
\* two pairs and their reverses, output amounts), calculateTokenOutByTokenIn
\* has quoted a split that getOptimizedRoutesByTokenIn found.
C16_CachesFilledAndUsed ==
    /\ last.op = "calculateTokenOutByTokenIn"
    /\ last.err = "none"
    /\ Len(last.split) >= 2
    /\ routeOutCache # {}
    /\ Cardinality({key \in AllKeys : candidatePathsCache[key].has}) >= 4

\* ------------------------------------------------------------------------
\* Dec of @keplr-wallet/unit: fixed-point decimals, held as the integer
\* number of units of 10^-DecPrecision (the library keeps 18 digits).
\* BigInteger products and quotients are split so that every intermediate
\* value stays within the integers the checker computes with.
\* ------------------------------------------------------------------------
DecPrecision == 3
DecScale == 10 ^ DecPrecision

Abs(x) == IF x < 0 THEN 0 - x ELSE x

Sgn(x) == IF x < 0 THEN 0 - 1 ELSE 1

\* BigInteger.divide: the quotient truncated toward zero
TruncDiv(a, b) == Sgn(a) * Sgn(b) * (Abs(a) \div Abs(b))

\* new Dec(n) of an integer n
NewDec(n) == n * DecScale

\* chopPrecisionAndRound on a non-negative value q * 10^precision + r:
\* half-way cases go to the even neighbour
ChopRoundAbs(q, r) ==
    IF 2 * r < DecScale THEN q ELSE IF 2 * r > DecScale THEN q + 1 ELSE q + (q % 2)

ChopPrecisionAndRound(x) == Sgn(x) * ChopRoundAbs(Abs(x) \div DecScale, Abs(x) % DecScale)

ChopPrecisionAndTruncate(x) == TruncDiv(x, DecScale)

\* chopPrecisionAndRoundUp: a negative value is truncated
ChopPrecisionAndRoundUp(x) ==
    IF x < 0 THEN 0 - (Abs(x) \div DecScale)
    ELSE (x \div DecScale) + (IF x % DecScale = 0 THEN 0 ELSE 1)

\* a.mul(b): a * b chopped and rounded (a, b >= 0 here: a = qa * scale + ra)
DecMulAbs(a, b) ==
    ChopRoundAbs((a \div DecScale) * b + ((a % DecScale) * b) \div DecScale,
                 ((a % DecScale) * b) % DecScale)

DecMul(a, b) == Sgn(a) * Sgn(b) * DecMulAbs(Abs(a), Abs(b))

\* a * 10^(2 * precision) / b truncated, for a >= 0 and b > 0: the quotient that
\* quo, quoTruncate and quoRoundUp chop
QuoAbs(a, b) ==
    ((a * DecScale) \div b) * DecScale + (((a * DecScale) % b) * DecScale) \div b

QuoRaw(a, b) == Sgn(a) * Sgn(b) * QuoAbs(Abs(a), Abs(b))

DecQuo(a, b) == ChopPrecisionAndRound(QuoRaw(a, b))

DecQuoTruncate(a, b) == ChopPrecisionAndTruncate(QuoRaw(a, b))

DecQuoRoundUp(a, b) == ChopPrecisionAndRoundUp(QuoRaw(a, b))

\* dec.truncate(): Int
DecTruncate(a) == ChopPrecisionAndTruncate(a)

\* dec.round(): Int
DecRound(a) == ChopPrecisionAndRound(a)

\* dec.roundUpDec(): the next integer, as a Dec
DecRoundUpDec(a) == NewDec(ChopPrecisionAndRoundUp(a))

\* DecUtils.getTenExponentN(n) fails below the precision of Dec
TooLittlePrecision(n) == n < 0 - DecPrecision

\* DecUtils.getTenExponentN(n) = new Dec(10).pow(n)
getTenExponentN(n) ==
    IF n >= 0 THEN NewDec(10 ^ n) ELSE DecQuo(NewDec(1), NewDec(10 ^ (0 - n)))

\* Results of functions that can throw
Ok(v) == [err |-> "none", v |-> v]

Throw(e) == [err |-> e, v |-> 0]

\* ------------------------------------------------------------------------
\* const.ts: the limits of the concentrated-liquidity math, at the scale of
\* DecPrecision (the smallest Dec; spot prices between 0.01 and 100)
\* ------------------------------------------------------------------------
smallestDec == 1

minSpotPrice == 10

maxSpotPrice == NewDec(100)

exponentAtPriceOneMin == 0 - 12

exponentAtPriceOneMax == 0 - 1

\* ------------------------------------------------------------------------
\* math.ts: amounts and prices of one swap step
\* ------------------------------------------------------------------------
calcAmount0Delta(liquidity, sqrtPriceA, sqrtPriceB, roundUp) ==
    With(DecQuo(DecMul(liquidity, Abs(sqrtPriceB - sqrtPriceA)), DecMul(sqrtPriceA, sqrtPriceB)),
         LAMBDA amount : IF roundUp THEN DecRoundUpDec(amount) ELSE amount)

calcAmount1Delta(liquidity, sqrtPriceA, sqrtPriceB, roundUp) ==
    With(DecMul(liquidity, Abs(sqrtPriceB - sqrtPriceA)),
         LAMBDA amount : IF roundUp THEN DecRoundUpDec(amount) ELSE amount)

getNextSqrtPriceFromAmount0InRoundingUp(sqrtPriceCurrent, liquidity, amountRemaining) ==
    IF amountRemaining = 0 THEN sqrtPriceCurrent
    ELSE DecQuoRoundUp(DecMul(liquidity, sqrtPriceCurrent),
                       liquidity + DecMul(amountRemaining, sqrtPriceCurrent))

getNextSqrtPriceFromAmount1InRoundingDown(sqrtPriceCurrent, liquidity, amountRemaining) ==
    sqrtPriceCurrent + DecQuoTruncate(amountRemaining, liquidity)

FeeCharge(threw, feeChargeTotal) == [threw |-> threw, feeChargeTotal |-> feeChargeTotal]

\* a fee charge returned without the check of its sign
FeeChargeUnchecked(hasReachedTarget, amountIn, amountSpecifiedRemaining, swapFee) ==
    IF swapFee < 0 THEN FeeCharge(TRUE, 0)
    ELSE IF swapFee = 0 THEN FeeCharge(FALSE, 0)
    ELSE FeeCharge(FALSE, IF hasReachedTarget
                          THEN DecQuo(DecMul(amountIn, swapFee), NewDec(1) - swapFee)
                          ELSE amountSpecifiedRemaining - amountIn)

getFeeChargePerSwapStepOutGivenIn(hasReachedTarget, amountIn, amountSpecifiedRemaining, swapFee) ==
    IF swapFee < 0 THEN FeeCharge(TRUE, 0)
    ELSE IF swapFee = 0 THEN FeeCharge(FALSE, 0)
    ELSE With(IF hasReachedTarget
              THEN DecQuo(DecMul(amountIn, swapFee), NewDec(1) - swapFee)
              ELSE amountSpecifiedRemaining - amountIn,
              LAMBDA feeChargeTotal : FeeCharge(feeChargeTotal < 0, feeChargeTotal))

\* approxSqrt(dec, maxIters = 300)
MaxSqrtIters == 300

\* approxRoot, root = 2: the Newton iteration from guess = 1, delta = 1
RECURSIVE ApproxRootLoop(_, _, _, _)
ApproxRootLoop(dec, guess, delta, i) ==
    IF Abs(delta) > smallestDec /\ i < MaxSqrtIters
    THEN With(DecQuoTruncate(DecQuo(dec, IF guess = 0 THEN smallestDec ELSE guess) - guess,
                             NewDec(2)),
              LAMBDA d : ApproxRootLoop(dec, guess + d, d, i + 1))
    ELSE guess

approxRoot(dec) ==
    IF dec = 0 \/ dec = NewDec(1) THEN dec
    ELSE Sgn(dec) * ApproxRootLoop(Abs(dec), NewDec(1), NewDec(1), 0)

approxSqrt(dec) == approxRoot(dec)

addLiquidity(a, b) == IF b < 0 THEN a - Abs(b) ELSE a + b

\* ------------------------------------------------------------------------
\* tick.ts: tick index <-> price
\* ------------------------------------------------------------------------
\* nine.mul(DecUtils.getTenExponentN(-exponentAtPriceOne)).truncate()
geometricExponentIncrementDistanceInTicks(exponentAtPriceOne) ==
    DecTruncate(DecMul(NewDec(9), getTenExponentN(0 - exponentAtPriceOne)))

computeMinMaxTicksFromExponentAtPriceOne(exponentAtPriceOne) ==
    [minTick |-> DecRound(0 - DecMul(NewDec(18),
                     NewDec(geometricExponentIncrementDistanceInTicks(exponentAtPriceOne)))),
     maxTick |-> DecTruncate(DecMul(NewDec(38),
                     NewDec(geometricExponentIncrementDistanceInTicks(exponentAtPriceOne))))]

\* a check of the lower end of the exponent range only
ExponentBelowRange(exponentAtPriceOne) == exponentAtPriceOne < exponentAtPriceOneMin

ExponentOutOfRange(exponentAtPriceOne) ==
    exponentAtPriceOne > exponentAtPriceOneMax \/ exponentAtPriceOne < exponentAtPriceOneMin

TickOutOfRange(tickIndex, exponentAtPriceOne) ==
    \/ tickIndex < computeMinMaxTicksFromExponentAtPriceOne(exponentAtPriceOne).minTick
    \/ tickIndex > computeMinMaxTicksFromExponentAtPriceOne(exponentAtPriceOne).maxTick

PriceOutOfRange(price) == price > maxSpotPrice \/ price < minSpotPrice

\* new Dec(tickIndex).quoTruncate(new Dec(distance)).truncate()
geometricExponentDelta(tickIndex, exponentAtPriceOne) ==
    DecTruncate(DecQuoTruncate(NewDec(tickIndex),
                    NewDec(geometricExponentIncrementDistanceInTicks(exponentAtPriceOne))))

exponentAtCurTick(tickIndex, exponentAtPriceOne) ==
    exponentAtPriceOne + geometricExponentDelta(tickIndex, exponentAtPriceOne)
        - (IF tickIndex < 0 THEN 1 ELSE 0)

\* 10^geometricExponentDelta + numAdditiveTicks * currentAdditiveIncrementInTicks
PriceAtTick(tickIndex, exponentAtPriceOne) ==
    getTenExponentN(geometricExponentDelta(tickIndex, exponentAtPriceOne))
        + (tickIndex - geometricExponentDelta(tickIndex, exponentAtPriceOne)
                         * geometricExponentIncrementDistanceInTicks(exponentAtPriceOne))
          * getTenExponentN(exponentAtCurTick(tickIndex, exponentAtPriceOne))

tickToSqrtPrice(tickIndex, exponentAtPriceOne) ==
    IF tickIndex = 0 THEN Ok(NewDec(1))
    ELSE IF ExponentOutOfRange(exponentAtPriceOne) THEN Throw("Error")
    ELSE IF TickOutOfRange(tickIndex, exponentAtPriceOne) THEN Throw("Error")
    ELSE IF TooLittlePrecision(exponentAtCurTick(tickIndex, exponentAtPriceOne)) THEN Throw("Error")
    ELSE IF PriceOutOfRange(PriceAtTick(tickIndex, exponentAtPriceOne)) THEN Throw("Error")
    ELSE Ok(approxSqrt(PriceAtTick(tickIndex, exponentAtPriceOne)))

\* powTenBigDec(exponent), at the precision of Dec
powTenBigDec(exponent) == getTenExponentN(exponent)

PriceAndTicksPassed(currentPrice, ticksPassed, currentAdditiveIncrementInTicks) ==
    [currentPrice |-> currentPrice, ticksPassed |-> ticksPassed,
     currentAdditiveIncrementInTicks |-> currentAdditiveIncrementInTicks]

\* calculatePriceAndTicksPassed: the loop for price > 1
RECURSIVE PriceAndTicksPassedUp(_, _, _, _, _, _)
PriceAndTicksPassedUp(price, distance, currentPrice, ticksPassed, exponent, increment) ==
    IF currentPrice < price
    THEN PriceAndTicksPassedUp(price, distance,
                               currentPrice + distance * powTenBigDec(exponent),
                               ticksPassed + distance, exponent + 1, powTenBigDec(exponent))
    ELSE PriceAndTicksPassed(currentPrice, ticksPassed, increment)

\* calculatePriceAndTicksPassed: the loop for price <= 1
RECURSIVE PriceAndTicksPassedDown(_, _, _, _, _, _)
PriceAndTicksPassedDown(price, distance, currentPrice, ticksPassed, exponent, increment) ==
    IF currentPrice > price
    THEN PriceAndTicksPassedDown(price, distance,
                                 currentPrice - distance * powTenBigDec(exponent),
                                 ticksPassed - distance, exponent - 1, powTenBigDec(exponent))
    ELSE PriceAndTicksPassed(currentPrice, ticksPassed, increment)

calculatePriceAndTicksPassed(price, exponentAtPriceOne) ==
    IF price > NewDec(1)
    THEN PriceAndTicksPassedUp(price, geometricExponentIncrementDistanceInTicks(exponentAtPriceOne),
                               NewDec(1), 0, exponentAtPriceOne, powTenBigDec(exponentAtPriceOne))
    ELSE PriceAndTicksPassedDown(price, geometricExponentIncrementDistanceInTicks(exponentAtPriceOne),
                                 NewDec(1), 0, exponentAtPriceOne - 1,
                                 powTenBigDec(exponentAtPriceOne))

\* ticksPassed + (price - currentPrice) / currentAdditiveIncrementInTicks, truncated
TickIndexFrom(price, passed) ==
    passed.ticksPassed + TruncDiv(price - passed.currentPrice, passed.currentAdditiveIncrementInTicks)

priceToTick(price, exponentAtPriceOne) ==
    IF price = NewDec(1) THEN Ok(0)
    ELSE IF price < 0 THEN Throw("Error")
    ELSE IF PriceOutOfRange(price) THEN Throw("Error")
    ELSE IF ExponentOutOfRange(exponentAtPriceOne) THEN Throw("Error")
    ELSE With(TickIndexFrom(price, calculatePriceAndTicksPassed(price, exponentAtPriceOne)),
              LAMBDA tickIndex : IF TickOutOfRange(tickIndex, exponentAtPriceOne)
                                 THEN Throw("Error") ELSE Ok(tickIndex))

\* sqrtPriceToTick(sqrtPrice, exponentAtPriceOne): the tick of the price sqrtPrice^2
sqrtPriceToTick(sqrtPrice, exponentAtPriceOne) ==
    priceToTick(DecMul(sqrtPrice, sqrtPrice), exponentAtPriceOne)

\* ------------------------------------------------------------------------
\* swap-strategy.ts: the two directional strategies (zero-for-one: token0 in,
\* the price falls; one-for-zero: token1 in, the price rises)
\* ------------------------------------------------------------------------
\* the nearer of the next tick's sqrt price and the price limit
getSqrtTargetPrice(isZeroForOne, sqrtPriceLimit, nextTickSqrtPrice) ==
    IF isZeroForOne
    THEN (IF nextTickSqrtPrice < sqrtPriceLimit THEN sqrtPriceLimit ELSE nextTickSqrtPrice)
    ELSE (IF nextTickSqrtPrice > sqrtPriceLimit THEN sqrtPriceLimit ELSE nextTickSqrtPrice)

initTickValue(isZeroForOne, curTick) == IF isZeroForOne THEN curTick + 1 ELSE curTick

setLiquidityDeltaSign(isZeroForOne, liquidityDelta) ==
    IF isZeroForOne THEN 0 - liquidityDelta ELSE liquidityDelta

\* the input that moves the price from sqrtPriceCurrent to sqrtPriceNext, rounded up
AmountInBetween(isZeroForOne, liquidity, sqrtPriceNext, sqrtPriceCurrent) ==
    IF isZeroForOne
    THEN calcAmount0Delta(liquidity, sqrtPriceNext, sqrtPriceCurrent, TRUE)
    ELSE calcAmount1Delta(liquidity, sqrtPriceNext, sqrtPriceCurrent, TRUE)

\* the output released between the two prices, rounded down
AmountOutBetween(isZeroForOne, liquidity, sqrtPriceNext, sqrtPriceCurrent) ==
    IF isZeroForOne
    THEN calcAmount1Delta(liquidity, sqrtPriceNext, sqrtPriceCurrent, FALSE)
    ELSE calcAmount0Delta(liquidity, sqrtPriceNext, sqrtPriceCurrent, FALSE)

\* the price reachable with the remaining input
NextSqrtPriceFromAmountIn(isZeroForOne, sqrtPriceCurrent, liquidity, amountRemaining) ==
    IF isZeroForOne
    THEN getNextSqrtPriceFromAmount0InRoundingUp(sqrtPriceCurrent, liquidity, amountRemaining)
    ELSE getNextSqrtPriceFromAmount1InRoundingDown(sqrtPriceCurrent, liquidity, amountRemaining)

\* the reachable price, clamped to the target
ReachedSqrtPrice(isZeroForOne, curSqrtPrice, sqrtPriceTarget, liquidity, amountRemainingLessFee) ==
    IF amountRemainingLessFee >= AmountInBetween(isZeroForOne, liquidity, sqrtPriceTarget, curSqrtPrice)
    THEN sqrtPriceTarget
    ELSE NextSqrtPriceFromAmountIn(isZeroForOne, curSqrtPrice, liquidity, amountRemainingLessFee)

SwapStep(isZeroForOne, swapFee, curSqrtPrice, sqrtPriceTarget, liquidity, amountRemainingIn, sqrtPriceNext) ==
    With(AmountInBetween(isZeroForOne, liquidity, sqrtPriceNext, curSqrtPrice),
         LAMBDA amountIn :
           With(getFeeChargePerSwapStepOutGivenIn(sqrtPriceNext = sqrtPriceTarget, amountIn,
                                                  amountRemainingIn, swapFee),
                LAMBDA fee :
                  [threw |-> fee.threw,
                   sqrtPriceNext |-> sqrtPriceNext,
                   amountInConsumed |-> amountIn,
                   amountOutComputed |-> AmountOutBetween(isZeroForOne, liquidity, sqrtPriceNext,
                                                          curSqrtPrice),
                   feeChargeTotal |-> fee.feeChargeTotal]))

computeSwapStepOutGivenIn(isZeroForOne, swapFee, curSqrtPrice, sqrtPriceTarget, liquidity, amountRemainingIn) ==
    SwapStep(isZeroForOne, swapFee, curSqrtPrice, sqrtPriceTarget, liquidity, amountRemainingIn,
             ReachedSqrtPrice(isZeroForOne, curSqrtPrice, sqrtPriceTarget, liquidity,
                              DecMul(amountRemainingIn, NewDec(1) - swapFee)))

\* ------------------------------------------------------------------------
\* quotes.ts: calcOutGivenIn
\* ------------------------------------------------------------------------
\* priceLimit = new Dec(0) stands for the spot price limit of the direction
PriceLimitOf(isZeroForOne, priceLimit) ==
    IF priceLimit = 0 THEN (IF isZeroForOne THEN minSpotPrice ELSE maxSpotPrice) ELSE priceLimit

sqrtPriceLimitOf(q) == approxSqrt(PriceLimitOf(q.isZeroForOne, q.priceLimit))

SwapState(amountRemaining, amountCalculated, sqrtPrice, tick, liquidity, feeGrowthGlobal) ==
    [amountRemaining |-> amountRemaining, amountCalculated |-> amountCalculated,
     sqrtPrice |-> sqrtPrice, tick |-> tick, liquidity |-> liquidity,
     feeGrowthGlobal |-> feeGrowthGlobal]

\* the swapState of lines 49-56
InitialSwapState(q) ==
    SwapState(NewDec(q.amount), 0, q.curSqrtPrice, initTickValue(q.isZeroForOne, q.curTick),
              q.poolLiquidity, 0)

\* the condition of the while loop
LoopContinues(s, sqrtPriceLimit) ==
    s.amountRemaining > smallestDec /\ s.sqrtPrice # sqrtPriceLimit

\* tickDepths?.[i] is undefined
NoNextTick(tickDepths, i) == i < 0 \/ i >= Len(tickDepths)

\* a loop that would stop at the end of tickDepths and return the output so far
ReturnOnNoNextTick == "returned"

\* what calcOutGivenIn does when there is no next tick (lines 67-69)
OnNoNextTick == "TickOverflowError"

\* swapState.tick after a step (lines 96-107)
TickAfter(s, nextTickSqrtPrice, sqrtPriceNext, exponentAtPriceOne) ==
    IF nextTickSqrtPrice = sqrtPriceNext THEN Ok(s.tick)
    ELSE IF s.sqrtPrice # sqrtPriceNext THEN sqrtPriceToTick(sqrtPriceNext, exponentAtPriceOne)
    ELSE Ok(s.tick)

\* swapState.liquidity after a step (lines 96-101)
LiquidityAfter(s, isZeroForOne, nextTick, nextTickSqrtPrice, sqrtPriceNext) ==
    IF nextTickSqrtPrice = sqrtPriceNext
    THEN addLiquidity(s.liquidity, setLiquidityDeltaSign(isZeroForOne, NewDec(nextTick)))
    ELSE s.liquidity

Iterated(err, state) == [err |-> err, state |-> state]

AfterStep(q, s, nextTick, nextTickSqrtPrice, step, tick) ==
    IF step.threw \/ tick.err # "none" THEN Iterated("Error", s)
    ELSE Iterated("none",
             SwapState(s.amountRemaining - (step.amountInConsumed + step.feeChargeTotal),
                       s.amountCalculated + step.amountOutComputed,
                       step.sqrtPriceNext,
                       tick.v,
                       LiquidityAfter(s, q.isZeroForOne, nextTick, nextTickSqrtPrice,
                                      step.sqrtPriceNext),
                       s.feeGrowthGlobal))

StepToward(q, s, nextTick, nextTickSqrtPrice, step) ==
    AfterStep(q, s, nextTick, nextTickSqrtPrice, step,
              IF step.threw THEN Ok(s.tick)
              ELSE TickAfter(s, nextTickSqrtPrice, step.sqrtPriceNext,
                             q.precisionFactorAtPriceOne))

\* one iteration of the while loop (lines 64-109) with the next tick nextTick
SwapIteration(q, s, nextTick) ==
    With(tickToSqrtPrice(nextTick, q.precisionFactorAtPriceOne),
         LAMBDA nextTickSqrtPrice :
           IF nextTickSqrtPrice.err # "none" THEN Iterated("Error", s)
           ELSE StepToward(q, s, nextTick, nextTickSqrtPrice.v,
                    computeSwapStepOutGivenIn(q.isZeroForOne, q.swapFee, s.sqrtPrice,
                        getSqrtTargetPrice(q.isZeroForOne, sqrtPriceLimitOf(q),
                                           nextTickSqrtPrice.v),
                        s.liquidity, s.amountRemaining)))

SwapOutcome(err, amountOut, state, i) ==
    [err |-> err, amountOut |-> amountOut, state |-> state, i |-> i]

\* calcOutGivenIn from the state s with the next tick at index i
RECURSIVE SwapLoop(_, _, _)
SwapLoop(q, s, i) ==
    IF ~LoopContinues(s, sqrtPriceLimitOf(q)) THEN SwapOutcome("none", DecTruncate(s.amountCalculated), s, i)
    ELSE IF NoNextTick(q.tickDepths, i) THEN SwapOutcome(OnNoNextTick, 0, s, i)
    ELSE With(SwapIteration(q, s, q.tickDepths[i + 1]),
              LAMBDA it : IF it.err # "none" THEN SwapOutcome(it.err, 0, s, i)
                          ELSE SwapLoop(q, it.state, i + 1))

calcOutGivenIn(q) == SwapLoop(q, InitialSwapState(q), q.curTickIndex)

\* ------------------------------------------------------------------------
\* calcOutGivenIn as a state machine: one action per loop iteration
\* ------------------------------------------------------------------------
\* Entries of tickDepths handed to one call: a prefix of TickUniverse.
MaxTickDepths == 2

\* Initialized ticks in the direction of the swap, nearest first: sqrt prices
\* 2, 3, 6.324 above the current price and 0.5, 0.4, 0.316 below it.
TickUniverse(isZeroForOne) ==
    IF isZeroForOne THEN <<0 - 75, 0 - 84, 0 - 90>> ELSE <<30, 80, 120>>

\* The pools a swap starts on: at tick 0 (sqrt price 1) and at tick 30 (sqrt
\* price 2).
SwapStarts == {[curTick |-> 0, curSqrtPrice |-> NewDec(1)],
               [curTick |-> 30, curSqrtPrice |-> NewDec(2)]}

\* The initialized ticks in the direction of the swap from curTick, nearest
\* first: from tick 30 the ticks 20, 10 and 0 lie below (sqrt prices 1.732,
\* 1.414 and 1) and 80, 120 and 130 above.
TicksFrom(curTick, isZeroForOne) ==
    IF curTick = 0 THEN TickUniverse(isZeroForOne)
    ELSE IF isZeroForOne THEN <<20, 10, 0>> ELSE <<80, 120, 130>>

\* LiquidityDepth.netLiquidity of the ticks of the universe, as the data
\* provider holds it: liquidity 1 or 2 enters or leaves the range at a tick.
NetLiquidity(tickIndex) ==
    IF tickIndex \in {0 - 75, 30} THEN 0 - NewDec(1)
    ELSE IF tickIndex \in {0 - 84, 80} THEN NewDec(2)
    ELSE NewDec(1)

SwapAmounts == {1, 5, 50}

\* swap fees 0 and 0.1
SwapFees == {0, DecScale \div 10}

\* no price limit, or the price of the first tick of the direction (0.25, 4)
SwapPriceLimits(isZeroForOne) == {0, IF isZeroForOne THEN DecScale \div 4 ELSE NewDec(4)}

\* the arguments of calcOutGivenIn on a pool at tick 0 (sqrt price 1) with
\* liquidity 4 and exponentAtPriceOne -1
CalcOutGivenInArgs(tokenInDenom, amount, tickDepths, curTickIndex, swapFee, priceLimit) ==
    [tokenInDenom |-> tokenInDenom, amount |-> amount, tokenDenom0 |-> "A",
     isZeroForOne |-> tokenInDenom = "A",
     poolLiquidity |-> NewDec(4), tickDepths |-> tickDepths, curTickIndex |-> curTickIndex,
     curTick |-> 0, curSqrtPrice |-> NewDec(1), precisionFactorAtPriceOne |-> 0 - 1,
     swapFee |-> swapFee, priceLimit |-> priceLimit]

\* No router is in use.
NoRouter ==
    /\ Construct(<<>>, 4)
    /\ callLimit = 0

\* calcOutGivenIn(...) has been called and stands before the while loop.
SwapInit ==
    /\ NoRouter
    /\ PoolConstructed
    /\ ProviderConstructed
    /\ NoTickCall
    /\ NoTradeConfig
    /\ NoFeeCall
    /\ NoPositionQueries
    /\ \E tokenInDenom \in {"A", "B"}, amount \in SwapAmounts, n \in 0..MaxTickDepths,
          curTickIndex \in 0..1, swapFee \in SwapFees, start \in SwapStarts :
        \E priceLimit \in SwapPriceLimits(tokenInDenom = "A") :
        \E q \in {[CalcOutGivenInArgs(tokenInDenom, amount,
                                      SubSeq(TicksFrom(start.curTick, tokenInDenom = "A"),
                                             1, n),
                                      curTickIndex, swapFee, priceLimit)
                       EXCEPT !.curTick = start.curTick,
                              !.curSqrtPrice = start.curSqrtPrice]} :
           /\ swapInput = q
           /\ swapState = InitialSwapState(q)
           /\ swapIndex = curTickIndex
           /\ swapStatus = "running"

\* one iteration of the loop that completes (lines 64-109)
CalcOutGivenInStep ==
    /\ swapStatus = "running"
    /\ LoopContinues(swapState, sqrtPriceLimitOf(swapInput))
    /\ ~NoNextTick(swapInput.tickDepths, swapIndex)
    /\ \E it \in {SwapIteration(swapInput, swapState, swapInput.tickDepths[swapIndex + 1])} :
         /\ it.err = "none"
         /\ swapState' = it.state
         /\ swapIndex' = swapIndex + 1
    /\ UNCHANGED <<swapInput, swapStatus>>
    /\ UNCHANGED <<routerVars, poolVars, providerVars, tickVars, tradeVars, feeVars, positionVars>>

\* an iteration in which tick math or the fee computation throws
CalcOutGivenInThrow ==
    /\ swapStatus = "running"
    /\ LoopContinues(swapState, sqrtPriceLimitOf(swapInput))
    /\ ~NoNextTick(swapInput.tickDepths, swapIndex)
    /\ \E it \in {SwapIteration(swapInput, swapState, swapInput.tickDepths[swapIndex + 1])} :
         /\ it.err # "none"
         /\ swapStatus' = it.err
    /\ UNCHANGED <<swapInput, swapState, swapIndex>>
    /\ UNCHANGED <<routerVars, poolVars, providerVars, tickVars, tradeVars, feeVars, positionVars>>

\* the loop goes on and tickDepths has no entry i (lines 66-69)
CalcOutGivenInNoNextTick ==
    /\ swapStatus = "running"
    /\ LoopContinues(swapState, sqrtPriceLimitOf(swapInput))
    /\ NoNextTick(swapInput.tickDepths, swapIndex)
    /\ swapStatus' = OnNoNextTick
    /\ UNCHANGED <<swapInput, swapState, swapIndex>>
    /\ UNCHANGED <<routerVars, poolVars, providerVars, tickVars, tradeVars, feeVars, positionVars>>

\* the loop ends: return swapState.amountCalculated.truncate() (line 112)
CalcOutGivenInReturn ==
    /\ swapStatus = "running"
    /\ ~LoopContinues(swapState, sqrtPriceLimitOf(swapInput))
    /\ swapStatus' = "returned"
    /\ UNCHANGED <<swapInput, swapState, swapIndex>>
    /\ UNCHANGED <<routerVars, poolVars, providerVars, tickVars, tradeVars, feeVars, positionVars>>

SwapNext ==
    \/ CalcOutGivenInStep
    \/ CalcOutGivenInThrow
    \/ CalcOutGivenInNoNextTick
    \/ CalcOutGivenInReturn

SpecSwap == SwapInit /\ [][SwapNext]_vars

\* ------------------------------------------------------------------------
\* Properties of the swap simulator
\* ------------------------------------------------------------------------
\* the call has ended, by a return or by a throw
SwapEnded == swapStatus \notin {"idle", "running"}

\* The liquidity after a step from the state s toward nextTick that reached
\* sqrtPriceNext, when a crossed tick applies its net liquidity with the sign
\* of the direction and a step short of the tick applies nothing.
LiquidityByNetLiquidity(q, s, nextTick, sqrtPriceNext) ==
    IF tickToSqrtPrice(nextTick, q.precisionFactorAtPriceOne).v = sqrtPriceNext
    THEN addLiquidity(s.liquidity, setLiquidityDeltaSign(q.isZeroForOne, NetLiquidity(nextTick)))
    ELSE s.liquidity

\* C23: a step of calcOutGivenIn that reaches the sqrt price of the next
\* initialized tick changes the liquidity of the swap state by that tick's
\* net liquidity, signed by the direction; another step leaves it unchanged.
C23_CrossingAppliesNetLiquidity ==
    [][swapIndex' = swapIndex + 1
         => swapState'.liquidity =
               LiquidityByNetLiquidity(swapInput, swapState,
                                       swapInput.tickDepths[swapIndex + 1],
                                       swapState'.sqrtPrice)]_vars

\* C24: a simulated swap does not go on with negative liquidity: the
\* liquidity of the swap state of a call that runs or has returned is not
\* below zero.
C24_LiquidityNeverNegative ==
    swapStatus \in {"running", "returned"} => swapState.liquidity >= 0

\* C5: a calcOutGivenIn call that stands at the end of the supplied tick
\* sequence with more than smallestDec of the input remaining and the price
\* limit not reached ends with TickOverflowError; it does not return the output
\* computed so far.
C5_ExhaustedTicksOverflow ==
    (/\ SwapEnded
     /\ NoNextTick(swapInput.tickDepths, swapIndex)
     /\ LoopContinues(swapState, sqrtPriceLimitOf(swapInput)))
    => swapStatus = "TickOverflowError"

\* C5 witness: a call has crossed every supplied tick, has computed some output
\* and has failed with TickOverflowError.
C5_OverflowAfterCrossingTicks ==
    /\ swapStatus = "TickOverflowError"
    /\ swapIndex > swapInput.curTickIndex
    /\ swapState.amountCalculated > 0
    /\ swapState.amountRemaining > smallestDec

\* ------------------------------------------------------------------------
\* math.ts: ConcentratedLiquidityPool, with the query store of
\* liquidity-net-in-direction as its data provider
\* ------------------------------------------------------------------------
\* Quotes asked of one pool instance.
MaxPoolQuotes == 2

\* poolAssetDenoms: raw.token0 and raw.token1
poolAssetDenoms == <<"A", "B">>

hasPoolAsset(denom) == \E i \in 1..Len(poolAssetDenoms) : poolAssetDenoms[i] = denom

\* a validation that only rejects duplicate denominations
validateDistinctDenoms(tokenDenoms) ==
    IF Cardinality(Range(tokenDenoms)) # Len(tokenDenoms) THEN "Error" ELSE "none"

\* validateDenoms(...tokenDenoms): the error thrown, or "none"
validateDenoms(tokenDenoms) ==
    IF Cardinality(Range(tokenDenoms)) # Len(tokenDenoms) THEN "Error"
    ELSE IF ~(\A i \in 1..Len(tokenDenoms) : hasPoolAsset(tokenDenoms[i])) THEN "Error"
    ELSE "none"

\* spotPrice(baseDenom, sqrtPriceToken1OverToken0)
spotPrice(baseDenom, sqrtPriceToken1OverToken0) ==
    IF baseDenom = poolAssetDenoms[1]
    THEN DecMul(sqrtPriceToken1OverToken0, sqrtPriceToken1OverToken0)
    ELSE DecQuo(NewDec(1), DecMul(sqrtPriceToken1OverToken0, sqrtPriceToken1OverToken0))

\* getSpotPriceInOverOut(tokenInDenom, tokenOutDenom) of the pool as it stands,
\* for denominations that pass validateDenoms
getSpotPriceInOverOut(tokenInDenom, tokenOutDenom) ==
    spotPrice(tokenOutDenom, NewDec(poolRaw.current_sqrt_price))

\* the denomination whose spot price the quote reports: tokenIn when it is
\* token0 (getSpotPriceOutOverIn), tokenOut otherwise (getSpotPriceInOverOut)
SpotPriceBase(tokenInDenom, tokenOutDenom) ==
    IF tokenInDenom = poolAssetDenoms[1] THEN tokenInDenom ELSE tokenOutDenom

\* the SwapResult of a non-zero output
SwapResult(amount, beforeSpotPriceInOverOut, afterSpotPriceInOverOut, effectivePriceInOverOut) ==
    [amount |-> amount,
     beforeSpotPriceInOverOut |-> beforeSpotPriceInOverOut,
     beforeSpotPriceOutOverIn |-> DecQuoTruncate(NewDec(1), beforeSpotPriceInOverOut),
     afterSpotPriceInOverOut |-> afterSpotPriceInOverOut,
     afterSpotPriceOutOverIn |-> DecQuoTruncate(NewDec(1), afterSpotPriceInOverOut),
     effectivePriceInOverOut |-> effectivePriceInOverOut,
     effectivePriceOutOverIn |-> DecQuoTruncate(NewDec(1), effectivePriceInOverOut),
     priceImpact |-> DecQuo(effectivePriceInOverOut, beforeSpotPriceInOverOut) - NewDec(1)]

\* the calcOutGivenIn call of the quote on the ticks the provider returned
PoolCalcOutGivenIn(quote, inittedTicks) ==
    calcOutGivenIn([CalcOutGivenInArgs(quote.tokenInDenom, quote.amount, inittedTicks, 0,
                                       quote.swapFee, 0)
                        EXCEPT !.curTick = poolRaw.current_tick,
                               !.curSqrtPrice = NewDec(poolRaw.current_sqrt_price)])

\* the rest of getTokenOutByTokenIn once the simulation has ended
QuoteAfterSimulation(quote, out) ==
    IF out.err # "none"
    THEN [quote EXCEPT !.phase = "done", !.simulations = @ + 1, !.err = out.err]
    ELSE IF out.amountOut = 0
    THEN [quote EXCEPT !.phase = "done", !.simulations = @ + 1, !.result = ZeroSwapResult]
    ELSE [quote EXCEPT !.phase = "done", !.simulations = @ + 1,
              !.result = SwapResult(out.amountOut,
                             spotPrice(SpotPriceBase(quote.tokenInDenom, quote.tokenOutDenom),
                                       NewDec(poolRaw.current_sqrt_price)),
                             spotPrice(SpotPriceBase(quote.tokenInDenom, quote.tokenOutDenom),
                                       out.state.sqrtPrice),
                             DecQuoTruncate(NewDec(quote.amount), NewDec(out.amountOut)))]

\* the response of the query store: the one it holds, or a first response of
\* n initialized ticks in the direction of the swap
DepthsResponse(tokenInDenom, n) ==
    IF queryDepths[tokenInDenom].fetched THEN queryDepths[tokenInDenom]
    ELSE [fetched |-> TRUE,
          depths |-> SubSeq(TicksFrom(poolRaw.current_tick,
                                      tokenInDenom = poolAssetDenoms[1]), 1, n)]

\* getTokenOutByTokenIn up to its await: validateDenoms, the spot price before
\* the swap, and the getTickDepths request
GetTokenOutByTokenIn ==
    /\ poolQuote.phase \in {"idle", "done"}
    /\ poolQuotes < MaxPoolQuotes
    /\ \E tokenInDenom \in QuoteDenoms, tokenOutDenom \in QuoteDenoms,
          amount \in SwapAmounts, swapFee \in SwapFees :
         poolQuote' =
             IF validateDenoms(<<tokenInDenom, tokenOutDenom>>) # "none"
             THEN [NoQuote EXCEPT !.phase = "done", !.method = "getTokenOutByTokenIn",
                                  !.tokenInDenom = tokenInDenom,
                                  !.amount = amount, !.tokenOutDenom = tokenOutDenom,
                                  !.swapFee = swapFee, !.err = "Error"]
             ELSE [NoQuote EXCEPT !.phase = "awaitingTicks",
                                  !.method = "getTokenOutByTokenIn",
                                  !.tokenInDenom = tokenInDenom,
                                  !.amount = amount, !.tokenOutDenom = tokenOutDenom,
                                  !.swapFee = swapFee, !.tickRequests = 1]
    /\ poolQuotes' = poolQuotes + 1
    /\ UNCHANGED <<queryDepths, poolRaw>>
    /\ UNCHANGED <<routerVars, swapVars, providerVars, tickVars, tradeVars, feeVars, positionVars>>

\* getTokenInByTokenOut up to its await: validateDenoms, the spot price before
\* the swap, and the getTickDepths request for the token-in denomination
GetTokenInByTokenOut ==
    /\ poolQuote.phase \in {"idle", "done"}
    /\ poolQuotes < MaxPoolQuotes
    /\ \E tokenOutDenom \in QuoteDenoms, tokenInDenom \in QuoteDenoms,
          amount \in SwapAmounts, swapFee \in SwapFees :
         poolQuote' =
             IF validateDenoms(<<tokenInDenom, tokenOutDenom>>) # "none"
             THEN [NoQuote EXCEPT !.phase = "done", !.method = "getTokenInByTokenOut",
                                  !.tokenInDenom = tokenInDenom,
                                  !.amount = amount, !.tokenOutDenom = tokenOutDenom,
                                  !.swapFee = swapFee, !.err = "Error"]
             ELSE [NoQuote EXCEPT !.phase = "awaitingTicks",
                                  !.method = "getTokenInByTokenOut",
                                  !.tokenInDenom = tokenInDenom,
                                  !.amount = amount, !.tokenOutDenom = tokenOutDenom,
                                  !.swapFee = swapFee, !.tickRequests = 1]
    /\ poolQuotes' = poolQuotes + 1
    /\ UNCHANGED <<queryDepths, poolRaw>>
    /\ UNCHANGED <<routerVars, swapVars, providerVars, tickVars, tradeVars, feeVars, positionVars>>

\* ConcentratedLiquidityMath exports calcOutGivenIn only: the call
\* ConcentratedLiquidityMath.calcInGivenOut(...) of getTokenInByTokenOut throws
\* a TypeError and no simulation runs.
QuoteAfterMissingSimulator(quote) == [quote EXCEPT !.phase = "done", !.err = "TypeError"]

\* getTickDepths resolves (waitResponse, then depths) and the quote runs to
\* its end: the simulation and the SwapResult, or the simulator's throw
GetTickDepthsResolved ==
    /\ poolQuote.phase = "awaitingTicks"
    /\ \E n \in 0..MaxTickDepths :
         \E response \in {DepthsResponse(poolQuote.tokenInDenom, n)} :
            /\ queryDepths' = [queryDepths EXCEPT ![poolQuote.tokenInDenom] = response]
            /\ IF poolQuote.method = "getTokenInByTokenOut"
               THEN poolQuote' = QuoteAfterMissingSimulator(poolQuote)
               ELSE \E out \in {PoolCalcOutGivenIn(poolQuote, response.depths)} :
                       poolQuote' = QuoteAfterSimulation(poolQuote, out)
    /\ UNCHANGED <<poolQuotes, poolRaw>>
    /\ UNCHANGED <<routerVars, swapVars, providerVars, tickVars, tradeVars, feeVars, positionVars>>

PoolInit ==
    /\ NoRouter
    /\ NoSwap
    /\ \E raw \in PoolRaws : PoolConstructedFor(raw)
    /\ ProviderConstructed
    /\ NoTickCall
    /\ NoTradeConfig
    /\ NoFeeCall
    /\ NoPositionQueries

PoolNext ==
    \/ GetTokenOutByTokenIn
    \/ GetTokenInByTokenOut
    \/ GetTickDepthsResolved

SpecPool == PoolInit /\ [][PoolNext]_vars

\* ------------------------------------------------------------------------
\* Properties of the pool model
\* ------------------------------------------------------------------------
\* C6: a getTokenOutByTokenIn call does not end with the simulator's
\* TickOverflowError unless the pool has asked the tick data provider more
\* often than the retry ceiling allows: below the ceiling an overflow makes the
\* pool ask the provider again and run the simulation again.
C6_OverflowNotPropagatedBelowCeiling ==
    (poolQuote.phase = "done" /\ poolQuote.err = "TickOverflowError")
    => poolQuote.tickRequests > maxNumRequeriesPerDenom

\* The denominations of a quote are equal, or one of them is not an asset of
\* the pool.
InvalidQuoteDenoms(quote) ==
    \/ quote.tokenInDenom = quote.tokenOutDenom
    \/ quote.tokenInDenom \notin Range(poolAssetDenoms)
    \/ quote.tokenOutDenom \notin Range(poolAssetDenoms)

\* C11: a getTokenOutByTokenIn or getTokenInByTokenOut call whose two
\* denominations are equal, or one of which is not an asset of the pool, has
\* failed with an Error as soon as it has been made, has sent no tick-depth
\* request and has run no simulation.
C11_InvalidDenomsFailBeforeRequest ==
    (poolQuote.phase # "idle" /\ InvalidQuoteDenoms(poolQuote))
        => /\ poolQuote.phase = "done"
           /\ poolQuote.err = "Error"
           /\ poolQuote.tickRequests = 0
           /\ poolQuote.simulations = 0

\* C11 witness: after a quote that asked for ticks and ran its simulation, a
\* getTokenInByTokenOut call with a denomination the pool does not hold failed.
C11_InvalidDenomsRejected ==
    /\ poolQuote.phase = "done"
    /\ poolQuote.method = "getTokenInByTokenOut"
    /\ poolQuote.tokenInDenom # poolQuote.tokenOutDenom
    /\ InvalidQuoteDenoms(poolQuote)
    /\ poolQuote.err = "Error"
    /\ \E d \in QuoteDenoms : queryDepths[d].fetched

\* C29: for both trade directions, the beforeSpotPriceInOverOut that
\* getTokenOutByTokenIn reports is what the pool's getSpotPriceInOverOut
\* accessor answers for the same tokens on the same state, and
\* beforeSpotPriceOutOverIn is its reciprocal.
C29_BeforeSpotPriceIsAccessor ==
    (/\ poolQuote.phase = "done"
     /\ poolQuote.method = "getTokenOutByTokenIn"
     /\ poolQuote.err = "none")
        => /\ poolQuote.result.beforeSpotPriceInOverOut
                 = getSpotPriceInOverOut(poolQuote.tokenInDenom, poolQuote.tokenOutDenom)
           /\ poolQuote.result.beforeSpotPriceOutOverIn
                 = DecQuoTruncate(NewDec(1), poolQuote.result.beforeSpotPriceInOverOut)

\* ------------------------------------------------------------------------
\* tick.ts: estimateInitialTickBounds
\* ------------------------------------------------------------------------
\* sqrtPriceTarget: the current sqrt price moved by the linear estimate and
\* clamped to minSpotPrice or maxSpotPrice
SqrtPriceTargetEstimate(isZeroForOne, amount, currentSqrtPrice, currentTickLiquidity) ==
    IF isZeroForOne
    THEN With(currentSqrtPrice - DecQuo(currentTickLiquidity, NewDec(amount)),
              LAMBDA estimate : IF estimate > minSpotPrice THEN estimate ELSE minSpotPrice)
    ELSE With(currentSqrtPrice + DecQuo(NewDec(amount), currentTickLiquidity),
              LAMBDA estimate : IF estimate < maxSpotPrice THEN estimate ELSE maxSpotPrice)

\* boundTickIndex, or the error priceToTick throws
estimateInitialTickBounds(tokenInDenom, amount, token0Denom, currentSqrtPrice, currentTickLiquidity, exponentAtPriceOne) ==
    With(SqrtPriceTargetEstimate(tokenInDenom = token0Denom, amount, currentSqrtPrice,
                                 currentTickLiquidity),
         LAMBDA sqrtPriceTarget :
           priceToTick(DecMul(sqrtPriceTarget, sqrtPriceTarget), exponentAtPriceOne))

\* ------------------------------------------------------------------------
\* pools.ts: ConcentratedLiquidityPoolTickDataProvider
\* ------------------------------------------------------------------------
\* Calls made on one provider instance.
MaxProviderCalls == 7

\* Calls suspended at their tick request at one time.
MaxPendingRequests == 2

\* tokenIn.amount, tokenOut.amount
ProviderAmounts == {1, 5}

\* the pools a provider is constructed for, by id: the pool of the quotes
\* above, at sqrt price 1 (tick 0), and the same pool at sqrt price 2 (tick 30)
ProviderPools ==
    <<[token0 |-> poolAssetDenoms[1], token1 |-> poolAssetDenoms[2],
       currentSqrtPrice |-> NewDec(1), currentTickLiquidity |-> NewDec(4),
       exponentAtPriceOne |-> 0 - 1],
      [token0 |-> poolAssetDenoms[1], token1 |-> poolAssetDenoms[2],
       currentSqrtPrice |-> NewDec(2), currentTickLiquidity |-> NewDec(4),
       exponentAtPriceOne |-> 0 - 1]>>

\* this.pool
ProviderPool == ProviderPools[providerPoolId]

\* zeroForOne of the two methods
ZeroForOne(method, denom, pool) ==
    IF method = "OutGivenIn" THEN pool.token0 = denom ELSE pool.token0 # denom

\* the token in of a trade whose specified token is the token in (out given
\* in) or the token out (in given out)
EstimateTokenInDenom(pool, specifiedDenom, isOutGivenIn) ==
    IF isOutGivenIn THEN specifiedDenom
    ELSE IF specifiedDenom = pool.token0 THEN pool.token1 ELSE pool.token0

\* estimateInitialTickBound({specifiedToken, isOutGivenIn, ...})
estimateInitialTickBound(specifiedDenom, amount, isOutGivenIn, pool) ==
    estimateInitialTickBounds(EstimateTokenInDenom(pool, specifiedDenom, isOutGivenIn), amount,
                              pool.token0, pool.currentSqrtPrice, pool.currentTickLiquidity,
                              pool.exponentAtPriceOne)

\* boundTickIndex of every call the model makes on the pool, or the error thrown
InitialBoundTicks ==
    [poolId \in DOMAIN ProviderPools |->
        [method \in ProviderMethods |->
            [denom \in Range(poolAssetDenoms) |->
                [amount \in ProviderAmounts |->
                    estimateInitialTickBound(denom, amount, method = "OutGivenIn",
                                             ProviderPools[poolId])]]]]

\* minTick and maxTick of the pool
ProviderTickRange == computeMinMaxTicksFromExponentAtPriceOne(ProviderPools[1].exponentAtPriceOne)

\* incrementCounterMap(map, key): the map after the call; the call returns the
\* new entry
incrementCounterMap(map, key) == [map EXCEPT ![key] = @ + 1]

\* the comparison that never trips
NeverExceedsMaxTries(tries) == FALSE

\* incrementCounterMap(...) > this.maxNumRequeriesPerDenom
ExceedsMaxTries(tries) == tries > maxNumRequeriesPerDenom

\* this._triesPerDenomOutGivenIn or this._triesPerDenomInGivenOut
TriesPerDenom(method) ==
    IF method = "OutGivenIn" THEN triesPerDenomOutGivenIn ELSE triesPerDenomInGivenOut

\* prevBoundIndex
PrevBoundIndex(zeroForOne) ==
    IF zeroForOne THEN zeroForOneBoundIndex ELSE oneForZeroBoundIndex

\* ---- the query store of a direction (liquidity-net-in-direction) ----
\* getForPoolTokenIn(...): the store of the direction, created on first use
\* with the initial bound tick it is given
GetForPoolTokenIn(store, initialBoundTick) ==
    IF store.created THEN store
    ELSE [created |-> TRUE, boundTick |-> initialBoundTick, fetchedUpTo |-> Undefined]

\* a bound tick index held to the pool's tick range
ClampToTickRange(tickIndex, range) ==
    IF tickIndex < range.minTick THEN range.minTick
    ELSE IF tickIndex > range.maxTick THEN range.maxTick
    ELSE tickIndex

\* hasFetchedAllTicks: a response has covered the end of the tick range in
\* the direction
hasFetchedAllTicks(store, zeroForOne, range) ==
    /\ store.fetchedUpTo.defined
    /\ IF zeroForOne THEN store.fetchedUpTo.v <= range.minTick
       ELSE store.fetchedUpTo.v >= range.maxTick

\* fetchUpToTickIndex(tickIndex): the store asks for the ticks up to the bound
FetchUpToTickIndex(store, tickIndex, range) ==
    [store EXCEPT !.boundTick = ClampToTickRange(tickIndex, range)]

\* ---- requestInDirectionWithInitialTickBound up to its await ----
\* the request the call is suspended at: waitResponse() when no bound index
\* is stored, fetchUpToTickIndex(prevBoundIndex * ramp) otherwise
TickRequest(method, denom, zeroForOne, initialBoundTick, rejected) ==
    IF ~PrevBoundIndex(zeroForOne).defined
    THEN [method |-> method, denom |-> denom, zeroForOne |-> zeroForOne, kind |-> "initial",
          bound |-> initialBoundTick, rejected |-> rejected]
    ELSE [method |-> method, denom |-> denom, zeroForOne |-> zeroForOne, kind |-> "widen",
          bound |-> PrevBoundIndex(zeroForOne).v * nextTicksRampMultiplier,
          rejected |-> rejected]

\* the store after the synchronous part of the request
StoreAfterRequest(store, request, range) ==
    IF request.kind = "widen" THEN FetchUpToTickIndex(store, request.bound, range)
    ELSE store

\* succeeded after a call of the method for the denom has returned ticks
Succeeded(method, denom) == [succeeded EXCEPT ![method][denom] = @ + 1]

\* The call throws in estimateInitialTickBound: nothing is requested or counted.
EstimateThrows ==
    /\ UNCHANGED <<zeroForOneBoundIndex, oneForZeroBoundIndex, triesPerDenomOutGivenIn,
                   triesPerDenomInGivenOut, depthsStore, pendingRequests, succeeded>>

\* The call gets past the estimate: requestInDirectionWithInitialTickBound runs
\* up to its return or its await, then the counter is incremented and checked.
RequestAndCount(method, denom, zeroForOne, initialBoundTick, store, tries) ==
    /\ triesPerDenomOutGivenIn' =
           IF method = "OutGivenIn" THEN incrementCounterMap(triesPerDenomOutGivenIn, denom)
           ELSE triesPerDenomOutGivenIn
    /\ triesPerDenomInGivenOut' =
           IF method = "InGivenOut" THEN incrementCounterMap(triesPerDenomInGivenOut, denom)
           ELSE triesPerDenomInGivenOut
    /\ IF hasFetchedAllTicks(store, zeroForOne, ProviderTickRange)
       THEN /\ depthsStore' = [depthsStore EXCEPT ![zeroForOne] = store]
            /\ UNCHANGED pendingRequests
            /\ succeeded' = IF ExceedsMaxTries(tries) THEN succeeded
                            ELSE Succeeded(method, denom)
       ELSE \E request \in {TickRequest(method, denom, zeroForOne, initialBoundTick,
                                        ExceedsMaxTries(tries))} :
            /\ depthsStore' = [depthsStore EXCEPT ![zeroForOne] =
                                  StoreAfterRequest(store, request, ProviderTickRange)]
            /\ pendingRequests' = Append(pendingRequests, request)
            /\ UNCHANGED succeeded
    /\ UNCHANGED <<zeroForOneBoundIndex, oneForZeroBoundIndex>>

\* one call of either method, up to the point where it returns, throws or is
\* suspended at its tick request
ProviderCall(method, denom, amount) ==
    /\ providerCalls' = providerCalls + 1
    /\ UNCHANGED providerPoolId
    /\ \E zeroForOne \in {ZeroForOne(method, denom, ProviderPool)},
          estimate \in {InitialBoundTicks[providerPoolId][method][denom][amount]} :
         IF estimate.err # "none" THEN EstimateThrows
         ELSE RequestAndCount(method, denom, zeroForOne, estimate.v,
                              GetForPoolTokenIn(depthsStore[zeroForOne], estimate.v),
                              TriesPerDenom(method)[denom] + 1)
    /\ UNCHANGED <<routerVars, swapVars, poolVars, tickVars, tradeVars, feeVars, positionVars>>

GetNextTickDepthsTokenOutGivenIn ==
    /\ providerCalls < MaxProviderCalls
    /\ Len(pendingRequests) < MaxPendingRequests
    /\ \E denom \in Range(poolAssetDenoms), amount \in ProviderAmounts :
         ProviderCall("OutGivenIn", denom, amount)

GetNextTickDepthsTokenInGivenOut ==
    /\ providerCalls < MaxProviderCalls
    /\ Len(pendingRequests) < MaxPendingRequests
    /\ \E denom \in Range(poolAssetDenoms), amount \in ProviderAmounts :
         ProviderCall("InGivenOut", denom, amount)

\* the further of two tick indices in the direction
Further(zeroForOne, a, b) ==
    IF zeroForOne THEN (IF a < b THEN a ELSE b) ELSE (IF a > b THEN a ELSE b)

\* a response up to tickIndex has arrived: the store keeps the ticks it knows
ResponseArrivedUpTo(store, zeroForOne, tickIndex) ==
    [store EXCEPT !.fetchedUpTo =
        IF store.fetchedUpTo.defined
        THEN Defined(Further(zeroForOne, store.fetchedUpTo.v, tickIndex))
        ELSE Defined(tickIndex)]

\* a call is suspended at waitResponse() of the direction's store
AwaitsResponse(request, zeroForOne) ==
    request.kind = "initial" /\ request.zeroForOne = zeroForOne

\* succeeded after the calls suspended at the requests have resumed
RECURSIVE SucceededAll(_, _)
SucceededAll(counts, requests) ==
    IF requests = <<>> THEN counts
    ELSE SucceededAll(IF Head(requests).rejected THEN counts
                      ELSE [counts EXCEPT ![Head(requests).method][Head(requests).denom] = @ + 1],
                      Tail(requests))

\* setLatestBoundTickIndex(index)
SetLatestBoundTickIndex(zeroForOne, index) ==
    /\ zeroForOneBoundIndex' = IF zeroForOne THEN Defined(index) ELSE zeroForOneBoundIndex
    /\ oneForZeroBoundIndex' = IF zeroForOne THEN oneForZeroBoundIndex ELSE Defined(index)

\* The first response of a direction's store arrives: every call suspended at
\* waitResponse() resumes, in the order of the calls, sets the bound index to
\* its own initial bound tick and returns the ticks.
WaitResponseResolved ==
    /\ \E zeroForOne \in BOOLEAN :
         \E waiting \in {SelectSeq(pendingRequests, LAMBDA r : AwaitsResponse(r, zeroForOne))} :
            /\ waiting # <<>>
            /\ SetLatestBoundTickIndex(zeroForOne, waiting[Len(waiting)].bound)
            /\ depthsStore' = [depthsStore EXCEPT ![zeroForOne] =
                                  ResponseArrivedUpTo(@, zeroForOne, @.boundTick)]
            /\ succeeded' = SucceededAll(succeeded, waiting)
            /\ pendingRequests' =
                   SelectSeq(pendingRequests, LAMBDA r : ~AwaitsResponse(r, zeroForOne))
    /\ UNCHANGED <<triesPerDenomOutGivenIn, triesPerDenomInGivenOut, providerCalls,
                   providerPoolId>>
    /\ UNCHANGED <<routerVars, swapVars, poolVars, tickVars, tradeVars, feeVars, positionVars>>

\* the sequence without its entry i
RemoveAt(s, i) == SubSeq(s, 1, i - 1) \o SubSeq(s, i + 1, Len(s))

\* The response of one fetchUpToTickIndex request arrives: the call resumes,
\* sets the bound index to the bound it asked for and returns the ticks.
FetchUpToTickIndexResolved ==
    /\ \E i \in 1..Len(pendingRequests) :
         \E request \in {pendingRequests[i]} :
            /\ request.kind = "widen"
            /\ SetLatestBoundTickIndex(request.zeroForOne, request.bound)
            /\ depthsStore' = [depthsStore EXCEPT ![request.zeroForOne] =
                                  ResponseArrivedUpTo(@, request.zeroForOne,
                                      ClampToTickRange(request.bound, ProviderTickRange))]
            /\ succeeded' = SucceededAll(succeeded, <<request>>)
            /\ pendingRequests' = RemoveAt(pendingRequests, i)
    /\ UNCHANGED <<triesPerDenomOutGivenIn, triesPerDenomInGivenOut, providerCalls,
                   providerPoolId>>
    /\ UNCHANGED <<routerVars, swapVars, poolVars, tickVars, tradeVars, feeVars, positionVars>>

ProviderInit ==
    /\ NoRouter
    /\ NoSwap
    /\ PoolConstructed
    /\ \E poolId \in DOMAIN ProviderPools : ProviderConstructedFor(poolId)
    /\ NoTickCall
    /\ NoTradeConfig
    /\ NoFeeCall
    /\ NoPositionQueries

ProviderNext ==
    \/ GetNextTickDepthsTokenOutGivenIn
    \/ GetNextTickDepthsTokenInGivenOut
    \/ WaitResponseResolved
    \/ FetchUpToTickIndexResolved

SpecProvider == ProviderInit /\ [][ProviderNext]_vars

\* ------------------------------------------------------------------------
\* Properties of the tick data provider
\* ------------------------------------------------------------------------
\* calls of the method for the denom that are suspended at their tick request
\* and have not failed
UnrejectedPending(method, denom) ==
    Cardinality({i \in 1..Len(pendingRequests) :
                    /\ pendingRequests[i].method = method
                    /\ pendingRequests[i].denom = denom
                    /\ ~pendingRequests[i].rejected})

\* the smaller of two numbers
Min(a, b) == IF a < b THEN a ELSE b

\* C7: in one provider instance, for each denomination and each method, none of
\* the first maxNumRequeriesPerDenom calls the counter counts fails on the
\* counter and every later one does: the calls that have returned ticks or are
\* still to return them number the counted calls, up to the ceiling.
C7_SuccessesBoundedByCeiling ==
    \A method \in ProviderMethods, denom \in QuoteDenoms :
        succeeded[method][denom] + UnrejectedPending(method, denom)
            = Min(TriesPerDenom(method)[denom], maxNumRequeriesPerDenom)

\* C7 witness: for one denomination and method the ceiling's worth of calls
\* have returned ticks and a later call has been counted and has failed.
C7_CallBeyondCeilingFailed ==
    \E method \in ProviderMethods, denom \in QuoteDenoms :
        /\ succeeded[method][denom] = maxNumRequeriesPerDenom
        /\ TriesPerDenom(method)[denom] > maxNumRequeriesPerDenom

\* C8: two calls that overlap never both stand at a widening fetch of the same
\* direction for the same bound.
C8_NoDuplicateWideningFetch ==
    \A i, j \in 1..Len(pendingRequests) :
        (/\ i < j
         /\ pendingRequests[i].kind = "widen"
         /\ pendingRequests[j].kind = "widen"
         /\ pendingRequests[i].zeroForOne = pendingRequests[j].zeroForOne)
        => pendingRequests[i].bound # pendingRequests[j].bound

\* new lies strictly further than prev in the direction the price moves:
\* down for zero-for-one, up for one-for-zero
StrictlyFurther(zeroForOne, new, prev) ==
    new # prev /\ Further(zeroForOne, new, prev) = new

\* the step is a call that is suspended at a tick request it has just issued
RequestIssued == Len(pendingRequests') = Len(pendingRequests) + 1

\* C25: for one pool and direction, the first call fetches up to the estimated
\* initial bound tick, and each later call that has not fetched all ticks
\* requests a bound strictly further, in the direction the price moves for
\* the trade, than the bound the previous call stored.
C25_LaterBoundStrictlyFurther ==
    [][RequestIssued =>
         \E request \in {pendingRequests'[Len(pendingRequests')]} :
            /\ ~depthsStore[request.zeroForOne].created
                    => /\ request.kind = "initial"
                       /\ depthsStore'[request.zeroForOne].boundTick = request.bound
            /\ request.kind = "widen"
                    => StrictlyFurther(request.zeroForOne, request.bound,
                                       PrevBoundIndex(request.zeroForOne).v)]_vars

\* the step is a call that counts itself beyond the retry ceiling, and so
\* fails
FailsOnCeiling ==
    /\ providerCalls' = providerCalls + 1
    /\ \E denom \in QuoteDenoms :
         \/ /\ triesPerDenomOutGivenIn'[denom] = triesPerDenomOutGivenIn[denom] + 1
            /\ ExceedsMaxTries(triesPerDenomOutGivenIn'[denom])
         \/ /\ triesPerDenomInGivenOut'[denom] = triesPerDenomInGivenOut[denom] + 1
            /\ ExceedsMaxTries(triesPerDenomInGivenOut'[denom])

\* the step resumes a call that has failed on the retry ceiling
FailedCallResumes ==
    \E i \in 1..Len(pendingRequests) :
        /\ pendingRequests[i].rejected
        /\ Len(pendingRequests') < Len(pendingRequests)
        /\ \A j \in 1..Len(pendingRequests') : pendingRequests'[j] # pendingRequests[i]

\* C28: a provider call that fails because the retry ceiling of its
\* denomination is exceeded has no other effect: it issues no tick fetch
\* (no request is left for it and the query stores are as before), and the
\* stored bound indices of both directions stay as they were, when it fails
\* and afterwards.
C28_CeilingFailureHasNoOtherEffect ==
    [][/\ FailsOnCeiling
            => /\ pendingRequests' = pendingRequests
               /\ depthsStore' = depthsStore
               /\ UNCHANGED <<zeroForOneBoundIndex, oneForZeroBoundIndex>>
       /\ FailedCallResumes
            => UNCHANGED <<zeroForOneBoundIndex, oneForZeroBoundIndex>>]_vars

\* ------------------------------------------------------------------------
\* The tick conversions as a state machine: the inputs are fixed at the
\* start, each step calls one conversion on them
\* ------------------------------------------------------------------------
\* Tick indices -MaxTickIndex..MaxTickIndex are converted.
MaxTickIndex == 95

\* Two exponents of the valid range, and the two next to its ends.
TickExponents == {exponentAtPriceOneMin - 1, 0 - 2, 0 - 1, exponentAtPriceOneMax + 1}

\* The tick indices converted under an exponent: those around 0 and, for an
\* exponent of the valid range, the two next to the ends of its tick range.
TickIndices(exponentAtPriceOne) ==
    ((0 - MaxTickIndex)..MaxTickIndex)
        \cup (IF ExponentOutOfRange(exponentAtPriceOne) THEN {}
              ELSE {computeMinMaxTicksFromExponentAtPriceOne(exponentAtPriceOne).minTick - 1,
                    computeMinMaxTicksFromExponentAtPriceOne(exponentAtPriceOne).maxTick + 1})

\* The least price whose band the additive increment 10^(exponent) can still
\* express with DecPrecision digits.
LeastPrice(exponentAtPriceOne) == 10 ^ (0 - exponentAtPriceOne)

\* The prices converted under an exponent: negative, below, at and above the
\* bounds of the spot price, 1, and prices on both sides of 1.
TickPrices(exponentAtPriceOne) ==
    {price \in {0 - 1, minSpotPrice - 1, minSpotPrice, 100, 500, 999, NewDec(1), 1001,
                1100, NewDec(5), maxSpotPrice, maxSpotPrice + 1} :
        \/ ExponentOutOfRange(exponentAtPriceOne)
        \/ price < minSpotPrice
        \/ price >= LeastPrice(exponentAtPriceOne)}

TickCallOf(op, result) == [op |-> op, err |-> result.err, v |-> result.v]

TickInit ==
    /\ \E exponentAtPriceOne \in TickExponents :
         \E tickIndex \in TickIndices(exponentAtPriceOne),
            price \in TickPrices(exponentAtPriceOne) :
            tickInput = [tickIndex |-> tickIndex, price |-> price,
                         exponentAtPriceOne |-> exponentAtPriceOne]
    /\ tickCall = [op |-> "none", err |-> "none", v |-> 0]
    /\ NoRouter
    /\ NoSwap
    /\ PoolConstructed
    /\ ProviderConstructed
    /\ NoTradeConfig
    /\ NoFeeCall
    /\ NoPositionQueries

\* tickToSqrtPrice(tickIndex, exponentAtPriceOne)
TickToSqrtPrice ==
    /\ tickCall.op = "none"
    /\ tickCall' = TickCallOf("tickToSqrtPrice",
                              tickToSqrtPrice(tickInput.tickIndex,
                                              tickInput.exponentAtPriceOne))
    /\ UNCHANGED tickInput
    /\ UNCHANGED <<routerVars, swapVars, poolVars, providerVars, tradeVars, feeVars, positionVars>>

\* priceToTick(price, exponentAtPriceOne)
PriceToTick ==
    /\ tickCall.op = "none"
    /\ tickCall' = TickCallOf("priceToTick",
                              priceToTick(tickInput.price, tickInput.exponentAtPriceOne))
    /\ UNCHANGED tickInput
    /\ UNCHANGED <<routerVars, swapVars, poolVars, providerVars, tradeVars, feeVars, positionVars>>

\* priceToTick of the square of the square-root price tickToSqrtPrice returned
PriceToTickOfSqrtPrice ==
    /\ tickCall.op = "tickToSqrtPrice"
    /\ tickCall.err = "none"
    /\ tickCall' = TickCallOf("priceToTickOfSqrtPrice",
                              priceToTick(DecMul(tickCall.v, tickCall.v),
                                          tickInput.exponentAtPriceOne))
    /\ UNCHANGED tickInput
    /\ UNCHANGED <<routerVars, swapVars, poolVars, providerVars, tradeVars, feeVars, positionVars>>

TickNext ==
    \/ TickToSqrtPrice
    \/ PriceToTick
    \/ PriceToTickOfSqrtPrice

SpecTick == TickInit /\ [][TickNext]_vars

\* ------------------------------------------------------------------------
\* Properties of the tick conversions
\* ------------------------------------------------------------------------
\* The exponent is not one of exponentAtPriceOneMin..exponentAtPriceOneMax.
InvalidExponent(exponentAtPriceOne) ==
    exponentAtPriceOne \notin exponentAtPriceOneMin..exponentAtPriceOneMax

\* The arguments of the conversion called break the precondition: the
\* exponent is outside the global range, or the tick index (the one returned,
\* for priceToTick) is outside the tick range of the exponent.
BreaksTickPrecondition ==
    \/ InvalidExponent(tickInput.exponentAtPriceOne)
    \/ /\ tickCall.op = "tickToSqrtPrice"
       /\ TickOutOfRange(tickInput.tickIndex, tickInput.exponentAtPriceOne)
    \/ /\ tickCall.op = "priceToTick"
       /\ tickCall.err = "none"
       /\ TickOutOfRange(tickCall.v, tickInput.exponentAtPriceOne)

\* C12 as claimed: tickToSqrtPrice and priceToTick throw for every input
\* whose exponent is outside the global range or whose tick index is outside
\* the tick range of the exponent, tick index 0 and price 1 included.
C12_OutOfRangeAlwaysThrows ==
    (tickCall.op \in {"tickToSqrtPrice", "priceToTick"} /\ BreaksTickPrecondition)
        => tickCall.err = "Error"

\* C12: tickToSqrtPrice, for every tick index other than 0, and priceToTick,
\* for every price other than 1, throw when the exponent is outside the
\* global range or the tick index is outside the tick range of the exponent;
\* tick index 0 and price 1 are answered (1 and 0) before any check.
C12_OutOfRangeThrowsButZeroAndOne ==
    /\ (/\ tickCall.op = "tickToSqrtPrice"
        /\ tickInput.tickIndex # 0
        /\ BreaksTickPrecondition) => tickCall.err = "Error"
    /\ (/\ tickCall.op = "priceToTick"
        /\ tickInput.price # NewDec(1)
        /\ BreaksTickPrecondition) => tickCall.err = "Error"
    /\ (/\ tickCall.op = "tickToSqrtPrice"
        /\ tickInput.tickIndex = 0) => (tickCall.err = "none" /\ tickCall.v = NewDec(1))
    /\ (/\ tickCall.op = "priceToTick"
        /\ tickInput.price = NewDec(1)) => (tickCall.err = "none" /\ tickCall.v = 0)

\* C12 witness: tickToSqrtPrice has thrown for a tick index just outside the
\* tick range of a valid exponent.
C12_TickBeyondRangeThrew ==
    /\ tickCall.op = "tickToSqrtPrice"
    /\ ~InvalidExponent(tickInput.exponentAtPriceOne)
    /\ tickInput.tickIndex
          = computeMinMaxTicksFromExponentAtPriceOne(tickInput.exponentAtPriceOne).maxTick + 1
    /\ tickCall.err = "Error"

\* C13: for every exponent of the valid range and every tick index t of its
\* tick range, positive or negative, priceToTick of the square of
\* tickToSqrtPrice(t, e) is t.
C13_RoundTrip ==
    tickCall.op = "priceToTickOfSqrtPrice"
        => (tickCall.err = "none" /\ tickCall.v = tickInput.tickIndex)

\* ------------------------------------------------------------------------
\* ObservableTradeTokenInConfig: the spot price of the selected currencies
\* ------------------------------------------------------------------------

\* minimal denoms of the currencies the user can select
TradeDenoms == {"A", "B", "C"}

\* currency selections in one behaviour
MaxCurrencyChanges == 3

\* setSpotPriceResult(undefined)
NoSpotPriceResult == [state |-> "undefined", send |-> "", out |-> "", run |-> 0]

\* The synchronous part of the spot-price autorun, run on construction and
\* whenever sendCurrency or outCurrency has changed: the stored result is
\* cleared and getOptimizedRoutesByTokenIn is awaited for the selected pair.
SpotPriceAutorun(send, out) ==
    /\ spotPriceResult' = NoSpotPriceResult
    /\ spotPriceRunCount' = spotPriceRunCount + 1
    /\ spotPriceRuns' = spotPriceRuns \cup
                          {[run |-> spotPriceRunCount + 1, send |-> send, out |-> out,
                            awaiting |-> "getOptimizedRoutesByTokenIn"]}

\* new ObservableTradeTokenInConfig(...): the autoruns run once
TradeInit ==
    /\ sendCurrencyMinDenom = "A"
    /\ outCurrencyMinDenom = "B"
    /\ spotPriceResult = NoSpotPriceResult
    /\ spotPriceRunCount = 1
    /\ spotPriceRuns = {[run |-> 1, send |-> "A", out |-> "B",
                         awaiting |-> "getOptimizedRoutesByTokenIn"]}
    /\ currencyChanges = 0
    /\ NoRouter
    /\ NoSwap
    /\ PoolConstructed
    /\ ProviderConstructed
    /\ NoTickCall
    /\ NoFeeCall
    /\ NoPositionQueries

\* setSendCurrency(currency), with a currency other than the selected one
SetSendCurrency ==
    /\ currencyChanges < MaxCurrencyChanges
    /\ \E denom \in TradeDenoms \ {sendCurrencyMinDenom} :
         /\ sendCurrencyMinDenom' = denom
         /\ SpotPriceAutorun(denom, outCurrencyMinDenom)
    /\ currencyChanges' = currencyChanges + 1
    /\ UNCHANGED outCurrencyMinDenom
    /\ UNCHANGED <<routerVars, swapVars, poolVars, providerVars, tickVars, feeVars, positionVars>>

\* setOutCurrency(currency), with a currency other than the selected one
SetOutCurrency ==
    /\ currencyChanges < MaxCurrencyChanges
    /\ \E denom \in TradeDenoms \ {outCurrencyMinDenom} :
         /\ outCurrencyMinDenom' = denom
         /\ SpotPriceAutorun(sendCurrencyMinDenom, denom)
    /\ currencyChanges' = currencyChanges + 1
    /\ UNCHANGED sendCurrencyMinDenom
    /\ UNCHANGED <<routerVars, swapVars, poolVars, providerVars, tickVars, feeVars, positionVars>>

\* switchInAndOut(): the denoms are exchanged and the results cleared; the
\* autorun runs again when that changed a currency.
SwitchInAndOut ==
    /\ currencyChanges < MaxCurrencyChanges
    /\ sendCurrencyMinDenom' = outCurrencyMinDenom
    /\ outCurrencyMinDenom' = sendCurrencyMinDenom
    /\ IF sendCurrencyMinDenom # outCurrencyMinDenom
       THEN SpotPriceAutorun(outCurrencyMinDenom, sendCurrencyMinDenom)
       ELSE /\ spotPriceResult' = NoSpotPriceResult
            /\ UNCHANGED <<spotPriceRuns, spotPriceRunCount>>
    /\ currencyChanges' = currencyChanges + 1
    /\ UNCHANGED <<routerVars, swapVars, poolVars, providerVars, tickVars, feeVars, positionVars>>

\* A run of the autorun resumes after await router.getOptimizedRoutesByTokenIn:
\* the call threw, found no route, or found a best route, whose
\* calculateTokenOutByTokenIn promise is stored.
GetOptimizedRoutesSettled ==
    /\ \E r \in spotPriceRuns :
         /\ r.awaiting = "getOptimizedRoutesByTokenIn"
         /\ \E outcome \in {"throws", "noRoute", "bestRoute"} :
              /\ spotPriceResult' =
                    IF outcome = "throws" THEN NoSpotPriceResult
                    ELSE IF outcome = "noRoute" THEN spotPriceResult
                    ELSE [state |-> "pending", send |-> r.send, out |-> r.out,
                          run |-> r.run]
              /\ spotPriceRuns' =
                    IF outcome = "bestRoute"
                    THEN (spotPriceRuns \ {r}) \cup
                           {[r EXCEPT !.awaiting = "calculateTokenOutByTokenIn"]}
                    ELSE spotPriceRuns \ {r}
    /\ UNCHANGED <<sendCurrencyMinDenom, outCurrencyMinDenom, spotPriceRunCount,
                   currencyChanges>>
    /\ UNCHANGED <<routerVars, swapVars, poolVars, providerVars, tickVars, feeVars, positionVars>>

\* The promise of router.calculateTokenOutByTokenIn(bestRoute) settles: the
\* observable made of it by fromPromise takes the promise's state.
CalculateTokenOutSettled ==
    /\ \E r \in spotPriceRuns :
         /\ r.awaiting = "calculateTokenOutByTokenIn"
         /\ \E outcome \in {"fulfilled", "rejected"} :
              spotPriceResult' =
                 IF spotPriceResult.state = "pending" /\ spotPriceResult.run = r.run
                 THEN [spotPriceResult EXCEPT !.state = outcome]
                 ELSE spotPriceResult
         /\ spotPriceRuns' = spotPriceRuns \ {r}
    /\ UNCHANGED <<sendCurrencyMinDenom, outCurrencyMinDenom, spotPriceRunCount,
                   currencyChanges>>
    /\ UNCHANGED <<routerVars, swapVars, poolVars, providerVars, tickVars, feeVars, positionVars>>

TradeNext ==
    \/ SetSendCurrency
    \/ SetOutCurrency
    \/ SwitchInAndOut
    \/ GetOptimizedRoutesSettled
    \/ CalculateTokenOutSettled

SpecTrade == TradeInit /\ [][TradeNext]_vars

\* C17: once every spot-price computation in flight has settled, the stored
\* spot-price result is the one computed for the currencies selected last:
\* results of computations started for an earlier selection are discarded.
C17_StaleSpotPriceDiscarded ==
    (spotPriceRuns = {} /\ spotPriceResult.state # "undefined")
        => /\ spotPriceResult.send = sendCurrencyMinDenom
           /\ spotPriceResult.out = outCurrencyMinDenom

\* ------------------------------------------------------------------------
\* math.ts: getFeeChargePerSwapStepOutGivenIn on its own
\* ------------------------------------------------------------------------

\* amounts handed to the function, in units of the last decimal
FeeAmounts == {0, 1, DecScale \div 2, NewDec(1), NewDec(1) + DecScale \div 2, NewDec(2)}

\* swap fees: -0.1, 0, 0.001, 0.1, 0.5, 0.9
FeeSwapFees == {0 - DecScale \div 10, 0, 1, DecScale \div 10, DecScale \div 2,
                DecScale - DecScale \div 10}

FeeInit ==
    /\ \E hasReachedTarget \in BOOLEAN, amountIn \in FeeAmounts,
          amountSpecifiedRemaining \in FeeAmounts, swapFee \in FeeSwapFees :
          feeInput = [hasReachedTarget |-> hasReachedTarget, amountIn |-> amountIn,
                      amountSpecifiedRemaining |-> amountSpecifiedRemaining,
                      swapFee |-> swapFee]
    /\ feeCall = [op |-> "none", threw |-> FALSE, feeChargeTotal |-> 0]
    /\ NoRouter
    /\ NoSwap
    /\ PoolConstructed
    /\ ProviderConstructed
    /\ NoTickCall
    /\ NoTradeConfig
    /\ NoPositionQueries

\* getFeeChargePerSwapStepOutGivenIn(hasReachedTarget, amountIn,
\* amountSpecifiedRemaining, swapFee)
GetFeeChargePerSwapStepOutGivenIn ==
    /\ feeCall.op = "none"
    /\ \E fee \in {getFeeChargePerSwapStepOutGivenIn(feeInput.hasReachedTarget,
                                                     feeInput.amountIn,
                                                     feeInput.amountSpecifiedRemaining,
                                                     feeInput.swapFee)} :
         feeCall' = [op |-> "getFeeChargePerSwapStepOutGivenIn", threw |-> fee.threw,
                     feeChargeTotal |-> fee.feeChargeTotal]
    /\ UNCHANGED feeInput
    /\ UNCHANGED <<routerVars, swapVars, poolVars, providerVars, tickVars, tradeVars, positionVars>>

FeeNext == GetFeeChargePerSwapStepOutGivenIn

SpecFee == FeeInit /\ [][FeeNext]_vars

\* The fee of the two cases: amountIn * swapFee / (1 - swapFee) for a step
\* that reached its target, amountSpecifiedRemaining - amountIn otherwise.
FeeOfCase(in) ==
    IF in.hasReachedTarget
    THEN DecQuo(DecMul(in.amountIn, in.swapFee), NewDec(1) - in.swapFee)
    ELSE in.amountSpecifiedRemaining - in.amountIn

\* The call threw on a negative swap fee or a negative fee of the case, and
\* returned the fee of the case otherwise.
ReturnsFeeOfCase ==
    IF feeInput.swapFee < 0 \/ FeeOfCase(feeInput) < 0
    THEN feeCall.threw
    ELSE ~feeCall.threw /\ feeCall.feeChargeTotal = FeeOfCase(feeInput)

\* C22 as stated: for every swap fee in [0, 1) the function returns the fee of
\* the case, and it throws on a negative swap fee or a negative computed fee.
C22_FeeOfCaseFromZeroFee ==
    feeCall.op = "getFeeChargePerSwapStepOutGivenIn" => ReturnsFeeOfCase

\* C22 amended: for every swap fee in (0, 1) the function returns the fee of
\* the case and throws when that fee is negative; it throws on a negative
\* swap fee; for a swap fee of zero it returns zero in both cases.
C22_FeeOfCaseAboveZeroFee ==
    feeCall.op = "getFeeChargePerSwapStepOutGivenIn"
        => IF feeInput.swapFee = 0
           THEN ~feeCall.threw /\ feeCall.feeChargeTotal = 0
           ELSE ReturnsFeeOfCase

\* C22 witness: under a swap fee of 0.1 a step short of its target was
\* charged all the input left over, a positive amount.
C22_RemainingInputCharged ==
    /\ feeCall.op = "getFeeChargePerSwapStepOutGivenIn"
    /\ feeInput.swapFee = DecScale \div 10
    /\ ~feeInput.hasReachedTarget
    /\ ~feeCall.threw
    /\ feeCall.feeChargeTotal > 0
    /\ feeCall.feeChargeTotal = feeInput.amountSpecifiedRemaining - feeInput.amountIn

\* ------------------------------------------------------------------------
\* position-by-id.ts: ObservableQueryLiquidityPositionsById
\* ------------------------------------------------------------------------
\* getForPositionId calls made for one position id.
MaxPositionCalls == 4

\* a guard that looks at the data of the query only
FetchesWithoutData(hasData, fetchingIds, positionId) == ~hasData

\* !pos.hasData && !this._fetchingPositionIds.has(positionId)
FetchesPosition(hasData, fetchingIds, positionId) ==
    ~hasData /\ positionId \notin fetchingIds

PositionInit ==
    /\ NoRouter
    /\ NoSwap
    /\ PoolConstructed
    /\ ProviderConstructed
    /\ NoTickCall
    /\ NoTradeConfig
    /\ NoFeeCall
    /\ NoPositionQueries

\* getForPositionId(positionId): when the query has no data and the id is not
\* being fetched, the id is added to the set, the query is allowed to fetch,
\* fetch() is called and the removal of the id is hung on waitResponse()
GetForPositionId ==
    /\ \E positionId \in PositionIds :
         /\ positionCalls[positionId] < MaxPositionCalls
         /\ positionCalls' = [positionCalls EXCEPT ![positionId] = @ + 1]
         /\ IF FetchesPosition(positionHasData[positionId], fetchingPositionIds, positionId)
            THEN /\ fetchingPositionIds' = fetchingPositionIds \cup {positionId}
                 /\ positionFetches' = [positionFetches EXCEPT ![positionId] = @ + 1]
                 /\ positionFetchCount' = [positionFetchCount EXCEPT ![positionId] = @ + 1]
            ELSE UNCHANGED <<fetchingPositionIds, positionFetches, positionFetchCount>>
    /\ UNCHANGED positionHasData
    /\ UNCHANGED <<routerVars, swapVars, poolVars, providerVars, tickVars, tradeVars, feeVars>>

\* The promise of waitResponse() settles and its finally callback deletes the
\* id from the set.
WaitResponseSettled(positionId) ==
    /\ positionFetches[positionId] > 0
    /\ positionFetches' = [positionFetches EXCEPT ![positionId] = @ - 1]
    /\ fetchingPositionIds' = fetchingPositionIds \ {positionId}
    /\ UNCHANGED <<positionFetchCount, positionCalls>>
    /\ UNCHANGED <<routerVars, swapVars, poolVars, providerVars, tickVars, tradeVars, feeVars>>

\* The fetch of an id succeeds: setResponse stores the position (setRaw).
PositionFetchSucceeds ==
    \E positionId \in PositionIds :
        /\ WaitResponseSettled(positionId)
        /\ positionHasData' = [positionHasData EXCEPT ![positionId] = TRUE]

\* The fetch of an id fails: no response is set, the query stays without data.
PositionFetchFails ==
    \E positionId \in PositionIds :
        /\ WaitResponseSettled(positionId)
        /\ UNCHANGED positionHasData

\* setWithPosition(position): the query of the id in the map is replaced by
\* one made with the position's data.
SetWithPosition ==
    /\ \E positionId \in PositionIds :
         positionHasData' = [positionHasData EXCEPT ![positionId] = TRUE]
    /\ UNCHANGED <<fetchingPositionIds, positionFetches, positionFetchCount, positionCalls>>
    /\ UNCHANGED <<routerVars, swapVars, poolVars, providerVars, tickVars, tradeVars, feeVars>>

PositionNext ==
    \/ GetForPositionId
    \/ PositionFetchSucceeds
    \/ PositionFetchFails
    \/ SetWithPosition

SpecPosition == PositionInit /\ [][PositionNext]_vars

\* C30: for a position id without data, the getForPositionId calls made while
\* a fetch of the id is in flight start no further fetch, so at most one fetch
\* of an id is in flight at any time; and the id is in the in-flight set
\* exactly while its fetch has not settled, whether it ends in success or in
\* failure, so that a later call for an id still without data fetches again.
C30_OneFetchInFlightPerId ==
    \A positionId \in PositionIds :
        /\ positionFetches[positionId] <= 1
        /\ positionId \in fetchingPositionIds <=> positionFetches[positionId] = 1
        /\ (positionFetches[positionId] = 0 /\ ~positionHasData[positionId])
              => FetchesPosition(positionHasData[positionId], fetchingPositionIds, positionId)

\* C30 witness: after a fetch of an id has failed, a second fetch of the id is
\* in flight, and more calls were made for the id than fetches started.
C30_FetchedAgainAfterFailure ==
    \E positionId \in PositionIds :
        /\ ~positionHasData[positionId]
        /\ positionFetchCount[positionId] = 2
        /\ positionFetches[positionId] = 1
        /\ positionCalls[positionId] > 2

====
